---------------------------- MODULE Spec2Model ----------------------------
(***************************************************************************)
(* Gap analysis and learning-roadmap generation (src/utils/gap-analysis.ts)*)
(*                                                                         *)
(* The exported functions are synchronous and pure, so each becomes an     *)
(* operator computed the way the code computes it, and an action applies   *)
(* it to inputs that Init draws from bounded sets.                         *)
(*                                                                         *)
(* Numbers: proficiencies, difficulties, weeks and years are non-negative  *)
(* integers.  The readiness score is computed in exact rational arithmetic *)
(* (a pair num/den, or NaN), standing for the IEEE doubles of the code.    *)
(***************************************************************************)
EXTENDS Integers, Sequences, FiniteSets, TLC

VARIABLES
    pc,           \* position of the call: "input", "analyzed", "done", "phased",
                  \* "sorting", "sorted", "grouping", "grouped"
    allSkills,    \* the skill catalog, as the skillMap built from it: id -> Skill
    candidate,    \* [current_skills, experience_years]
    targetRole,   \* [required_skills, min_experience_years]
    skillGaps,    \* gap list handed to generateRoadmap
    gapAnalysis,  \* GapAnalysisResult of analyzeGap, or NoResult
    sorted,       \* what topologicalSort built: [skillIds, graph, inDegree, keys, result]
    roadmap,      \* LearningRoadmap of generateRoadmap, or NoResult
    learningPhases, \* LearningPhase list of getLearningPhases, or NoResult
    grouper,      \* locals of a running groupIntoPhases, or NoResult
    sequencer,    \* locals of a running topologicalSort, or NoResult
    now,          \* the clock that new Date() reads
    analyses,     \* the CompleteAnalysis records generateAnalysis has returned
    requests,     \* concurrent generateRoadmap calls: arguments, position, result
    frames        \* the storage that holds the locals of each call

vars == <<pc, allSkills, candidate, targetRole, skillGaps, gapAnalysis, sorted, roadmap,
          learningPhases, grouper, sequencer, now, analyses, requests, frames>>

-----------------------------------------------------------------------------
(* Bounds and value sets                                                   *)

\* the catalog lists its skills in this order
CatalogOrder == <<"fe-001", "fe-003", "fe-005">>

\* skill identifiers of the catalog
CatalogIds == {CatalogOrder[i] : i \in DOMAIN CatalogOrder}

\* an identifier that no catalog entry carries
UnknownId == "zz-999"

RefIds == CatalogIds \cup {UnknownId}

\* size of the input of one generateRoadmap call: gap entries, plus skill
\* records of the candidate, plus prerequisite entries of the whole catalog
MaxInputSize == 4

DifficultyLevels == {2, 5}

ProficiencyLevels == {4, 5}

\* value of a result variable before the call has produced it
NoResult == [none |-> TRUE]

-----------------------------------------------------------------------------
(* Generic helpers standing for the JavaScript built-ins the code uses     *)

\* Array.prototype.includes
Includes(arr, x) == \E i \in DOMAIN arr : arr[i] = x

\* sequences over S of length at most n
SeqsUpTo(S, n) == UNION {[1..k -> S] : k \in 0..n}

NoRepeat(arr) == \A i, j \in DOMAIN arr : arr[i] = arr[j] => i = j

\* position of the first occurrence of x in arr (0 when absent)
IndexOf(arr, x) ==
    IF Includes(arr, x) THEN CHOOSE i \in DOMAIN arr : arr[i] = x /\ \A j \in 1..(i-1) : arr[j] # x
    ELSE 0

-----------------------------------------------------------------------------
(* candidateSkillMap: new Map filled by forEach, a later record of the     *)
(* same skill_id replaces an earlier one                                   *)

CandidateSkillMap(currentSkills) ==
    [id \in {currentSkills[i].skill_id : i \in DOMAIN currentSkills} |->
        LET last == CHOOSE i \in DOMAIN currentSkills :
                        /\ currentSkills[i].skill_id = id
                        /\ \A j \in DOMAIN currentSkills :
                              currentSkills[j].skill_id = id => j <= i
        IN currentSkills[last]]

-----------------------------------------------------------------------------
(* topologicalSort                                                         *)

\* proficiency a candidate must hold for a prerequisite to count as held
HeldThreshold == 5

\* CandidateHasPrereq without the proficiency test: any record counts as held
CandidateHasPrereqAtAnyLevel(candidateSkillMap, prereqId) ==
    prereqId \in DOMAIN candidateSkillMap

\* CandidateHasPrereq with > in place of >=
CandidateHasPrereqAboveThreshold(candidateSkillMap, prereqId) ==
    /\ prereqId \in DOMAIN candidateSkillMap
    /\ candidateSkillMap[prereqId].proficiency_level > HeldThreshold

\* candidateHasPrereq
CandidateHasPrereq(candidateSkillMap, prereqId) ==
    /\ prereqId \in DOMAIN candidateSkillMap
    /\ candidateSkillMap[prereqId].proficiency_level >= HeldThreshold

\* one call of the inner forEach callback, for prerequisite prereqId of skillId.
\* st = [skillIds, graph, inDegree, keys]; keys is the insertion order of inDegree
BuildPrereq(st, skillId, prereqId, candidateSkillMap) ==
    LET has == CandidateHasPrereq(candidateSkillMap, prereqId)
        inc == Includes(st.skillIds, prereqId)
        st1 == IF ~inc /\ ~has
               THEN [skillIds |-> Append(st.skillIds, prereqId),
                     graph    |-> (prereqId :> <<>>) @@ st.graph,
                     inDegree |-> (prereqId :> 0) @@ st.inDegree,
                     keys     |-> Append(st.keys, prereqId)]
               ELSE st
    IN  IF inc \/ ~has
        THEN IF Includes(st1.skillIds, prereqId)
             THEN [st1 EXCEPT !.graph[prereqId] = Append(@, skillId),
                              !.inDegree[skillId] = @ + 1]
             ELSE st1
        ELSE st

RECURSIVE BuildPrereqs(_, _, _, _)
BuildPrereqs(st, skillId, prereqs, candidateSkillMap) ==
    IF prereqs = <<>> THEN st
    ELSE BuildPrereqs(BuildPrereq(st, skillId, Head(prereqs), candidateSkillMap),
                      skillId, Tail(prereqs), candidateSkillMap)

\* one call of the outer forEach callback
BuildSkill(st, skillId, skillMap, candidateSkillMap) ==
    IF skillId \notin DOMAIN skillMap THEN st
    ELSE BuildPrereqs(st, skillId, skillMap[skillId].prerequisites, candidateSkillMap)

\* the outer forEach visits the indices k..len, len being the length of skillIds
\* when forEach was called: elements pushed during the walk are not visited
RECURSIVE BuildEdges(_, _, _, _, _)
BuildEdges(st, k, len, skillMap, candidateSkillMap) ==
    IF k > len THEN st
    ELSE BuildEdges(BuildSkill(st, st.skillIds[k], skillMap, candidateSkillMap),
                    k + 1, len, skillMap, candidateSkillMap)

\* the first forEach: graph.set(id, []), inDegree.set(id, 0); a Map keeps the
\* position of a key that is set again
RECURSIVE DedupKeys(_)
DedupKeys(arr) ==
    IF arr = <<>> THEN <<>>
    ELSE LET front == DedupKeys(SubSeq(arr, 1, Len(arr) - 1))
             x == arr[Len(arr)]
         IN IF Includes(front, x) THEN front ELSE Append(front, x)

InitGraph(skillIds) ==
    LET ids == {skillIds[i] : i \in DOMAIN skillIds}
    IN [skillIds |-> skillIds,
        graph    |-> [id \in ids |-> <<>>],
        inDegree |-> [id \in ids |-> 0],
        keys     |-> DedupKeys(skillIds)]

BuildGraph(skillIds, skillMap, candidateSkillMap) ==
    BuildEdges(InitGraph(skillIds), 1, Len(skillIds), skillMap, candidateSkillMap)

\* (skill?.difficulty || 0)
DifficultyOf(skillMap, id) ==
    IF id \in DOMAIN skillMap THEN skillMap[id].difficulty ELSE 0

\* queue.sort by difficulty; Array.prototype.sort is stable
RECURSIVE InsertByDifficulty(_, _, _)
InsertByDifficulty(arr, x, skillMap) ==
    IF arr = <<>> THEN <<x>>
    ELSE IF DifficultyOf(skillMap, Head(arr)) <= DifficultyOf(skillMap, x)
         THEN <<Head(arr)>> \o InsertByDifficulty(Tail(arr), x, skillMap)
         ELSE <<x>> \o arr

\* SortByDifficulty left out: the queue is served first in, first out
QueueUnsorted(queue, skillMap) == queue

RECURSIVE SortByDifficulty(_, _)
SortByDifficulty(queue, skillMap) ==
    IF queue = <<>> THEN <<>>
    ELSE InsertByDifficulty(
             SortByDifficulty(SubSeq(queue, 1, Len(queue) - 1), skillMap),
             queue[Len(queue)], skillMap)

\* ProcessNeighbors without the newDegree === 0 test: every neighbor is queued
RECURSIVE ProcessNeighborsAlwaysQueued(_, _)
ProcessNeighborsAlwaysQueued(k, neighbors) ==
    IF neighbors = <<>> THEN k
    ELSE LET neighbor == Head(neighbors)
             newDegree == k.inDegree[neighbor] - 1
         IN ProcessNeighborsAlwaysQueued(
                [k EXCEPT !.inDegree[neighbor] = newDegree,
                          !.queue = Append(@, neighbor)],
                Tail(neighbors))

\* neighbors.forEach: decrement, push the neighbor whose degree reaches 0
RECURSIVE ProcessNeighbors(_, _)
ProcessNeighbors(k, neighbors) ==
    IF neighbors = <<>> THEN k
    ELSE LET neighbor == Head(neighbors)
             newDegree == k.inDegree[neighbor] - 1
         IN ProcessNeighbors(
                [k EXCEPT !.inDegree[neighbor] = newDegree,
                          !.queue = IF newDegree = 0 THEN Append(@, neighbor) ELSE @],
                Tail(neighbors))

\* one iteration of the while loop; k = [queue, result, inDegree]
KahnStep(k, graph, skillMap) ==
    LET q == SortByDifficulty(k.queue, skillMap)
        current == Head(q)
    IN ProcessNeighbors([k EXCEPT !.queue = Tail(q), !.result = Append(@, current)],
                        graph[current])

RECURSIVE KahnLoop(_, _, _)
KahnLoop(k, graph, skillMap) ==
    IF k.queue = <<>> THEN k
    ELSE KahnLoop(KahnStep(k, graph, skillMap), graph, skillMap)

\* inDegree.forEach in insertion order: the keys of degree 0
\* InitialQueue without the in-degree test: every skill starts in the queue
InitialQueueOfAllSkills(st) == st.keys

InitialQueue(st) == SelectSeq(st.keys, LAMBDA id : st.inDegree[id] = 0)

\* the whole function; the record also keeps the working set and the graph
TopologicalSortFull(skillIds, skillMap, candidateSkillMap) ==
    LET st == BuildGraph(skillIds, skillMap, candidateSkillMap)
        k  == KahnLoop([queue |-> InitialQueue(st), result |-> <<>>,
                        inDegree |-> st.inDegree], st.graph, skillMap)
    IN [skillIds |-> st.skillIds, graph |-> st.graph, inDegree |-> st.inDegree,
        keys |-> st.keys, result |-> k.result]

TopologicalSort(skillIds, skillMap, candidateSkillMap) ==
    TopologicalSortFull(skillIds, skillMap, candidateSkillMap).result

-----------------------------------------------------------------------------
(* groupIntoPhases, createPhase                                            *)

\* a difficulty jump of this many levels closes the current phase
DifficultyJump == 3

\* a phase holding this many skills is full
MaxPhaseSize == 4

RECURSIVE SumDifficulty(_, _)
SumDifficulty(ids, skillMap) ==
    IF ids = <<>> THEN 0
    ELSE skillMap[Head(ids)].difficulty + SumDifficulty(Tail(ids), skillMap)

RECURSIVE SumWeeks(_, _)
SumWeeks(ids, skillMap) ==
    IF ids = <<>> THEN 0
    ELSE skillMap[Head(ids)].typical_learning_time_weeks + SumWeeks(Tail(ids), skillMap)

\* avgDifficulty = sum / length, compared without dividing
\* PhaseName with > in place of >= in the test for Advanced
PhaseNameAboveSeven(ids, skillMap) ==
    LET sum == SumDifficulty(ids, skillMap)
        n   == Len(ids)
    IN IF sum > 7 * n THEN "Advanced"
       ELSE IF sum >= 4 * n THEN "Intermediate"
       ELSE "Fundamentals"

PhaseName(ids, skillMap) ==
    LET sum == SumDifficulty(ids, skillMap)
        n   == Len(ids)
    IN IF sum >= 7 * n THEN "Advanced"
       ELSE IF sum >= 4 * n THEN "Intermediate"
       ELSE "Fundamentals"

\* CreatePhase with order: index in place of index + 1 (the index counts from 0)
CreatePhaseOrderFromZero(phaseNumber, skillIds, skillMap) ==
    LET phaseName == PhaseName(skillIds, skillMap)
    IN [phase_number    |-> phaseNumber,
        phase_name      |-> phaseName,
        skills          |-> [index \in DOMAIN skillIds |->
                               [order             |-> index - 1,
                                skill_id          |-> skillIds[index],
                                estimated_weeks   |-> skillMap[skillIds[index]].typical_learning_time_weeks,
                                prerequisites_met |-> TRUE,
                                reason            |-> <<phaseNumber, phaseName, skillIds[index]>>]],
        estimated_weeks |-> SumWeeks(skillIds, skillMap)]

\* createPhase is only called with identifiers of the catalog
CreatePhase(phaseNumber, skillIds, skillMap) ==
    LET phaseName == PhaseName(skillIds, skillMap)
    IN [phase_number    |-> phaseNumber,
        phase_name      |-> phaseName,
        skills          |-> [index \in DOMAIN skillIds |->
                               [order             |-> index,
                                skill_id          |-> skillIds[index],
                                estimated_weeks   |-> skillMap[skillIds[index]].typical_learning_time_weeks,
                                prerequisites_met |-> TRUE,
                                reason            |-> <<phaseNumber, phaseName, skillIds[index]>>]],
        estimated_weeks |-> SumWeeks(skillIds, skillMap)]

Max(a, b) == IF a >= b THEN a ELSE b

\* PhaseFull with > in place of >=
PhaseFullAboveSize(currentPhase) == Len(currentPhase) > MaxPhaseSize

\* phaseFull
PhaseFull(currentPhase) == Len(currentPhase) >= MaxPhaseSize

\* GroupStep with > in place of >= in the test of the difficulty jump
GroupStepJumpAboveThree(g, skillId, skillMap) ==
    IF skillId \notin DOMAIN skillMap THEN g
    ELSE LET skill == skillMap[skillId]
             difficultyJump == skill.difficulty - g.currentMaxDifficulty > DifficultyJump
             phaseFull == PhaseFull(g.currentPhase)
             g1 == IF (difficultyJump \/ phaseFull) /\ Len(g.currentPhase) > 0
                   THEN [phases |-> Append(g.phases,
                                       CreatePhase(Len(g.phases) + 1, g.currentPhase, skillMap)),
                         currentPhase |-> <<>>,
                         currentMaxDifficulty |-> 0]
                   ELSE g
         IN [g1 EXCEPT !.currentPhase = Append(@, skillId),
                       !.currentMaxDifficulty = Max(@, skill.difficulty)]

\* one call of the forEach callback; g = [phases, currentPhase, currentMaxDifficulty]
GroupStep(g, skillId, skillMap) ==
    IF skillId \notin DOMAIN skillMap THEN g
    ELSE LET skill == skillMap[skillId]
             difficultyJump == skill.difficulty - g.currentMaxDifficulty >= DifficultyJump
             phaseFull == PhaseFull(g.currentPhase)
             g1 == IF (difficultyJump \/ phaseFull) /\ Len(g.currentPhase) > 0
                   THEN [phases |-> Append(g.phases,
                                       CreatePhase(Len(g.phases) + 1, g.currentPhase, skillMap)),
                         currentPhase |-> <<>>,
                         currentMaxDifficulty |-> 0]
                   ELSE g
         IN [g1 EXCEPT !.currentPhase = Append(@, skillId),
                       !.currentMaxDifficulty = Max(@, skill.difficulty)]

RECURSIVE GroupLoop(_, _, _)
GroupLoop(g, orderedSkills, skillMap) ==
    IF orderedSkills = <<>> THEN g
    ELSE GroupLoop(GroupStep(g, Head(orderedSkills), skillMap), Tail(orderedSkills), skillMap)

\* the locals before the walk
EmptyGrouper == [phases |-> <<>>, currentPhase |-> <<>>, currentMaxDifficulty |-> 0]

\* after the walk: the remaining skills become the final phase
FinishPhases(g, skillMap) ==
    IF Len(g.currentPhase) > 0
    THEN Append(g.phases, CreatePhase(Len(g.phases) + 1, g.currentPhase, skillMap))
    ELSE g.phases

GroupIntoPhases(orderedSkills, skillMap) ==
    FinishPhases(GroupLoop(EmptyGrouper, orderedSkills, skillMap), skillMap)

-----------------------------------------------------------------------------
(* generateRoadmap                                                         *)

\* Flatten without the running counter: every step keeps the order of its phase
RECURSIVE FlattenKeepingPhaseOrder(_, _)
FlattenKeepingPhaseOrder(phases, learningPath) ==
    IF phases = <<>> THEN learningPath
    ELSE FlattenKeepingPhaseOrder(Tail(phases), learningPath \o Head(phases).skills)

\* phases.forEach / phase.skills.forEach with the running counter globalOrder
RECURSIVE Flatten(_, _)
Flatten(phases, learningPath) ==
    IF phases = <<>> THEN learningPath
    ELSE LET steps == Head(phases).skills
             base  == Len(learningPath)
         IN Flatten(Tail(phases),
                    learningPath \o [i \in DOMAIN steps |-> [steps[i] EXCEPT !.order = base + i]])

RECURSIVE SumStepWeeks(_)
SumStepWeeks(steps) ==
    IF steps = <<>> THEN 0 ELSE Head(steps).estimated_weeks + SumStepWeeks(Tail(steps))

SkillsToLearn(gaps) == [i \in DOMAIN gaps |-> gaps[i].skill_id]

\* EmptyRoadmap turned into a rejection of the empty gap list
EmptyRoadmapRejected == [error |-> "no skill gaps"]

\* the roadmap of the early return for an empty gap list
EmptyRoadmap == [skill_gaps |-> <<>>, estimated_total_weeks |-> 0, learning_path |-> <<>>]

GenerateRoadmapResult(cand, gaps, skillMap) ==
    LET candidateSkillMap == CandidateSkillMap(cand.current_skills)
        skillsToLearn == SkillsToLearn(gaps)
    IN IF Len(skillsToLearn) = 0
       THEN EmptyRoadmap
       ELSE LET orderedSkills == TopologicalSort(skillsToLearn, skillMap, candidateSkillMap)
                phases == GroupIntoPhases(orderedSkills, skillMap)
                learningPath == Flatten(phases, <<>>)
            IN [skill_gaps |-> gaps,
                estimated_total_weeks |-> SumStepWeeks(learningPath),
                learning_path |-> learningPath]

-----------------------------------------------------------------------------
(* getLearningPhases                                                       *)

\* GetLearningPhasesResult grouping the skills of skill_gaps, not of learning_path
GetLearningPhasesOfGaps(rm, skillMap) ==
    GroupIntoPhases(SkillsToLearn(rm.skill_gaps), skillMap)

\* groupIntoPhases(roadmap.learning_path.map(step => step.skill_id), allSkills)
GetLearningPhasesResult(rm, skillMap) ==
    GroupIntoPhases([i \in DOMAIN rm.learning_path |-> rm.learning_path[i].skill_id], skillMap)

-----------------------------------------------------------------------------
(* Numbers of calculateReadinessScore: exact rationals n/d (d > 0), or NaN *)

RECURSIVE GCD(_, _)
GCD(a, b) == IF b = 0 THEN a ELSE GCD(b, a % b)

Rat(n, d) ==
    LET g == GCD(IF n < 0 THEN -n ELSE n, d)
    IN [nan |-> FALSE, n |-> n \div g, d |-> d \div g]

NaN == [nan |-> TRUE, n |-> 0, d |-> 1]

RatAdd(a, b) == IF a.nan \/ b.nan THEN NaN ELSE Rat(a.n * b.d + b.n * a.d, a.d * b.d)

RatMul(a, b) == IF a.nan \/ b.nan THEN NaN ELSE Rat(a.n * b.n, a.d * b.d)

\* a / b for b > 0
RatDiv(a, b) == IF a.nan \/ b.nan THEN NaN ELSE Rat(a.n * b.d, a.d * b.n)

RatLess(a, b) == a.n * b.d < b.n * a.d

\* MinRatioOne without the cap: x / y
MinRatioUncapped(x, y) ==
    IF y = 0 THEN (IF x = 0 THEN NaN ELSE Rat(1, 1))
    ELSE Rat(x, y)

\* Math.min(x / y, 1) for integers x, y >= 0: x / 0 is Infinity for x > 0
\* and NaN for x = 0, and Math.min(NaN, 1) is NaN
MinRatioOne(x, y) ==
    IF y = 0 THEN (IF x = 0 THEN NaN ELSE Rat(1, 1))
    ELSE IF x >= y THEN Rat(1, 1) ELSE Rat(x, y)

\* an integer-valued JavaScript number, or NaN
JsInt(v) == [nan |-> FALSE, value |-> v]

JsNaN == [nan |-> TRUE, value |-> 0]

\* Math.round of a value >= 0: floor(x + 1/2); Math.round(NaN) is NaN
MathRound(a) == IF a.nan THEN JsNaN ELSE JsInt((2 * a.n + a.d) \div (2 * a.d))

\* ValidScore without the isNaN test
ValidScoreUnguarded(finalScore) == finalScore

\* isNaN(finalScore) ? 0 : finalScore
ValidScore(finalScore) == IF finalScore.nan THEN Rat(0, 1) ELSE finalScore

\* Math.min(Math.max(x, 0), 100); NaN stays NaN
Clamp(x) ==
    IF x.nan THEN NaN
    ELSE IF RatLess(x, Rat(0, 1)) THEN Rat(0, 1)
    ELSE IF RatLess(Rat(100, 1), x) THEN Rat(100, 1)
    ELSE x

-----------------------------------------------------------------------------
(* calculateReadinessScore                                                 *)

Importances == {"Critical", "High", "Medium", "Low"}

\* ImportanceMultiplier with the High tier weighted like Medium
ImportanceMultiplierHighAsMedium(importance) ==
    IF importance = "Critical" THEN Rat(15, 10)
    ELSE IF importance = "Low" THEN Rat(8, 10)
    ELSE Rat(10, 10)

\* importanceMultiplier of the switch, default 1.0
ImportanceMultiplier(importance) ==
    IF importance = "Critical" THEN Rat(15, 10)
    ELSE IF importance = "High" THEN Rat(12, 10)
    ELSE IF importance = "Medium" THEN Rat(10, 10)
    ELSE IF importance = "Low" THEN Rat(8, 10)
    ELSE Rat(10, 10)

\* required_skills.find(r => r.skill_id === id): index of the first, 0 for none
FindRequirement(requiredSkills, id) ==
    IF \E i \in DOMAIN requiredSkills : requiredSkills[i].skill_id = id
    THEN CHOOSE i \in DOMAIN requiredSkills :
             /\ requiredSkills[i].skill_id = id
             /\ \A j \in 1..(i - 1) : requiredSkills[j].skill_id # id
    ELSE 0

\* matchedSkills.forEach accumulating skillScore
RECURSIVE SkillScore(_, _)
SkillScore(matchedSkills, requiredSkills) ==
    IF matchedSkills = <<>> THEN Rat(0, 1)
    ELSE LET n == Len(matchedSkills)
             match == matchedSkills[n]
             before == SkillScore(SubSeq(matchedSkills, 1, n - 1), requiredSkills)
             r == FindRequirement(requiredSkills, match.skill_id)
         IN IF r = 0 THEN before
            ELSE RatAdd(before,
                        RatMul(MinRatioOne(match.current_proficiency, match.required_proficiency),
                               ImportanceMultiplier(requiredSkills[r].importance)))

\* required_skills.reduce summing the weights
RECURSIVE TotalImportanceWeight(_)
TotalImportanceWeight(requiredSkills) ==
    IF requiredSkills = <<>> THEN Rat(0, 1)
    ELSE RatAdd(TotalImportanceWeight(Tail(requiredSkills)),
                ImportanceMultiplier(Head(requiredSkills).importance))

\* CalculateReadinessScore without the guard on min_experience_years
CalculateReadinessScoreUnguardedYears(cand, role, matchedSkills) ==
    IF Len(role.required_skills) = 0 THEN JsInt(100)
    ELSE IF Len(matchedSkills) = 0 THEN JsInt(0)
    ELSE
      LET skillScore == SkillScore(matchedSkills, role.required_skills)
          totalImportanceWeight == TotalImportanceWeight(role.required_skills)
          normalizedSkillScore ==
              IF ~totalImportanceWeight.nan /\ totalImportanceWeight.n > 0
              THEN RatMul(RatDiv(skillScore, totalImportanceWeight), Rat(100, 1))
              ELSE Rat(0, 1)
          experienceRatio == MinRatioOne(cand.experience_years, role.min_experience_years)
          experienceScore == RatMul(experienceRatio, Rat(100, 1))
          finalScore == RatAdd(RatMul(normalizedSkillScore, Rat(7, 10)),
                               RatMul(experienceScore, Rat(3, 10)))
          validScore == ValidScore(finalScore)
      IN MathRound(Clamp(validScore))

CalculateReadinessScore(cand, role, matchedSkills) ==
    IF Len(role.required_skills) = 0 THEN JsInt(100)
    ELSE IF Len(matchedSkills) = 0 THEN JsInt(0)
    ELSE
      LET skillScore == SkillScore(matchedSkills, role.required_skills)
          totalImportanceWeight == TotalImportanceWeight(role.required_skills)
          normalizedSkillScore ==
              IF ~totalImportanceWeight.nan /\ totalImportanceWeight.n > 0
              THEN RatMul(RatDiv(skillScore, totalImportanceWeight), Rat(100, 1))
              ELSE Rat(0, 1)
          experienceRatio ==
              IF role.min_experience_years > 0
              THEN MinRatioOne(cand.experience_years, role.min_experience_years)
              ELSE Rat(1, 1)
          experienceScore == RatMul(experienceRatio, Rat(100, 1))
          finalScore == RatAdd(RatMul(normalizedSkillScore, Rat(7, 10)),
                               RatMul(experienceScore, Rat(3, 10)))
          validScore == ValidScore(finalScore)
      IN MathRound(Clamp(validScore))

-----------------------------------------------------------------------------
(* analyzeGap                                                              *)

\* candidateSkill?.proficiency_level || 0
CurrentProficiency(candidateSkillMap, id) ==
    IF id \in DOMAIN candidateSkillMap THEN candidateSkillMap[id].proficiency_level ELSE 0

\* MatchOf with > in place of >=
MatchOfStrict(candidateSkillMap, requirement) ==
    LET currentProficiency == CurrentProficiency(candidateSkillMap, requirement.skill_id)
    IN [skill_id |-> requirement.skill_id,
        current_proficiency |-> currentProficiency,
        required_proficiency |-> requirement.minimum_proficiency,
        meets_requirement |-> currentProficiency > requirement.minimum_proficiency]

\* the matched_skills entry of one requirement
MatchOf(candidateSkillMap, requirement) ==
    LET currentProficiency == CurrentProficiency(candidateSkillMap, requirement.skill_id)
    IN [skill_id |-> requirement.skill_id,
        current_proficiency |-> currentProficiency,
        required_proficiency |-> requirement.minimum_proficiency,
        meets_requirement |-> currentProficiency >= requirement.minimum_proficiency]

\* GapOf with the subtraction of gap_score reversed
GapOfCurrentMinusRequired(candidateSkillMap, requirement) ==
    LET currentProficiency == CurrentProficiency(candidateSkillMap, requirement.skill_id)
    IN [skill_id |-> requirement.skill_id,
        current_proficiency |-> currentProficiency,
        required_proficiency |-> requirement.minimum_proficiency,
        gap_score |-> currentProficiency - requirement.minimum_proficiency,
        priority |-> requirement.importance]

\* the SkillGap of one requirement
GapOf(candidateSkillMap, requirement) ==
    LET currentProficiency == CurrentProficiency(candidateSkillMap, requirement.skill_id)
    IN [skill_id |-> requirement.skill_id,
        current_proficiency |-> currentProficiency,
        required_proficiency |-> requirement.minimum_proficiency,
        gap_score |-> requirement.minimum_proficiency - currentProficiency,
        priority |-> requirement.importance]

\* required_skills.forEach pushing to missingSkills
RECURSIVE MissingSkills(_, _)
MissingSkills(candidateSkillMap, requiredSkills) ==
    IF requiredSkills = <<>> THEN <<>>
    ELSE LET n == Len(requiredSkills)
             requirement == requiredSkills[n]
             before == MissingSkills(candidateSkillMap, SubSeq(requiredSkills, 1, n - 1))
         IN IF ~MatchOf(candidateSkillMap, requirement).meets_requirement
            THEN Append(before, GapOf(candidateSkillMap, requirement))
            ELSE before

AnalyzeGapResult(cand, role) ==
    LET candidateSkillMap == CandidateSkillMap(cand.current_skills)
        matchedSkills == [i \in DOMAIN role.required_skills |->
                             MatchOf(candidateSkillMap, role.required_skills[i])]
    IN [readiness_score |-> CalculateReadinessScore(cand, role, matchedSkills),
        missing_skills |-> MissingSkills(candidateSkillMap, role.required_skills),
        matched_skills |-> matchedSkills,
        experience_match |->
            [candidate_years |-> cand.experience_years,
             required_years |-> role.min_experience_years,
             meets_requirement |-> cand.experience_years >= role.min_experience_years]]

-----------------------------------------------------------------------------
(* generateAnalysis; the two new Date() calls read generatedAt (inside     *)
(* generateRoadmap) and then returnedAt                                    *)

\* GenerateAnalysisResult with estimated_total_weeks counted from the clock
GenerateAnalysisEndingAt(cand, role, skillMap, generatedAt, returnedAt) ==
    LET analysis == AnalyzeGapResult(cand, role)
        learningRoadmap == GenerateRoadmapResult(cand, analysis.missing_skills, skillMap)
    IN [generated_at |-> returnedAt,
        gap_analysis |-> analysis,
        learning_roadmap |->
            [generated_at |-> generatedAt,
             skill_gaps |-> learningRoadmap.skill_gaps,
             estimated_total_weeks |-> generatedAt + learningRoadmap.estimated_total_weeks,
             learning_path |-> learningRoadmap.learning_path]]

GenerateAnalysisResult(cand, role, skillMap, generatedAt, returnedAt) ==
    LET analysis == AnalyzeGapResult(cand, role)
        learningRoadmap == GenerateRoadmapResult(cand, analysis.missing_skills, skillMap)
    IN [generated_at |-> returnedAt,
        gap_analysis |-> analysis,
        learning_roadmap |->
            [generated_at |-> generatedAt,
             skill_gaps |-> learningRoadmap.skill_gaps,
             estimated_total_weeks |-> learningRoadmap.estimated_total_weeks,
             learning_path |-> learningRoadmap.learning_path]]

-----------------------------------------------------------------------------
(* Inputs                                                                  *)

\* duration of each catalog entry, in weeks
CatalogWeeks == [id \in CatalogIds |->
                    IF id = "fe-001" THEN 1 ELSE IF id = "fe-003" THEN 2 ELSE 4]

PrereqLists == {p \in SeqsUpTo(RefIds, MaxInputSize) : NoRepeat(p)}

\* the prerequisite lists of the first k catalog entries, e entries in total
RECURSIVE PrereqsOfSize(_, _)
PrereqsOfSize(k, e) ==
    IF k = 0 THEN (IF e = 0 THEN {<<>>} ELSE {})
    ELSE UNION {{Append(q, p) : q \in PrereqsOfSize(k - 1, e - Len(p))} :
                   p \in {l \in PrereqLists : Len(l) <= e}}

\* difficulties that do not decrease along the catalog; every other assignment
\* is one of these with the skills renamed
DifficultyProfiles ==
    {d \in [CatalogIds -> DifficultyLevels] :
        \A i, j \in DOMAIN CatalogOrder : i <= j => d[CatalogOrder[i]] <= d[CatalogOrder[j]]}

Catalog(d, pr) ==
    [id \in CatalogIds |-> [difficulty |-> d[id],
                            typical_learning_time_weeks |-> CatalogWeeks[id],
                            prerequisites |-> pr[IndexOf(CatalogOrder, id)]]]

CandidateSkillRecords ==
    [skill_id : CatalogIds, proficiency_level : ProficiencyLevels]

\* a SkillGap as generateRoadmap receives it; only skill_id is read
GapRecord(id) ==
    [skill_id |-> id, current_proficiency |-> 0, required_proficiency |-> 6,
     gap_score |-> 6, priority |-> "High"]

GapList(ids) == [i \in DOMAIN ids |-> GapRecord(ids[i])]

NoRole == [required_skills |-> <<>>, min_experience_years |-> 0]

-----------------------------------------------------------------------------
(* Specification of generateRoadmap                                        *)

Init ==
    /\ pc = "input"
    /\ \E e \in 0..MaxInputSize : \E c \in 0..(MaxInputSize - e) :
          /\ \E d \in DifficultyProfiles, pr \in PrereqsOfSize(Len(CatalogOrder), e) :
                allSkills = Catalog(d, pr)
          /\ \E cs \in [1..c -> CandidateSkillRecords] :
                candidate = [current_skills |-> cs, experience_years |-> 0]
          /\ \E ids \in SeqsUpTo(RefIds, MaxInputSize - e - c) :
                skillGaps = GapList(ids)
    /\ targetRole = NoRole
    /\ gapAnalysis = NoResult
    /\ sorted = NoResult
    /\ roadmap = NoResult
    /\ learningPhases = NoResult
    /\ sequencer = NoResult
    /\ now = 0
    /\ analyses = <<>>
    /\ requests = <<>>
    /\ frames = <<>>
    /\ grouper = NoResult

\* generateRoadmap, the early return for an empty gap list
GenerateRoadmapEmpty ==
    /\ pc = "input"
    /\ Len(SkillsToLearn(skillGaps)) = 0
    /\ roadmap' = GenerateRoadmapResult(candidate, skillGaps, allSkills)
    /\ pc' = "done"
    /\ UNCHANGED <<allSkills, candidate, targetRole, skillGaps, gapAnalysis, sorted, learningPhases, grouper, sequencer,
                   now, analyses, requests, frames>>

\* generateRoadmap: topologicalSort, groupIntoPhases, flatten
GenerateRoadmap ==
    /\ pc = "input"
    /\ Len(SkillsToLearn(skillGaps)) > 0
    /\ sorted' = TopologicalSortFull(SkillsToLearn(skillGaps), allSkills,
                                     CandidateSkillMap(candidate.current_skills))
    /\ roadmap' = GenerateRoadmapResult(candidate, skillGaps, allSkills)
    /\ pc' = "done"
    /\ UNCHANGED <<allSkills, candidate, targetRole, skillGaps, gapAnalysis, learningPhases, grouper, sequencer,
                   now, analyses, requests, frames>>

Next == GenerateRoadmapEmpty \/ GenerateRoadmap

Spec == Init /\ [][Next]_vars

-----------------------------------------------------------------------------
(* Specification of analyzeGap                                             *)

\* size of the input of one analyzeGap call: requirements of the role plus
\* skill records of the candidate
MaxAnalysisInput == 3

\* identifiers the role and the candidate name in an analyzeGap call
AnalysisIds == {"fe-001", "fe-003"}

MinimumLevels == {0, 5}

CandidateYears == {0, 1, 3}

RequiredYears == {0, 2}

Requirements ==
    [skill_id : AnalysisIds, minimum_proficiency : MinimumLevels, importance : Importances]

AnalysisSkillRecords ==
    [skill_id : AnalysisIds, proficiency_level : ProficiencyLevels]

\* analyzeGap does not read the catalog
PlainCatalog ==
    Catalog([id \in CatalogIds |-> 2], [i \in DOMAIN CatalogOrder |-> <<>>])

InitScore ==
    /\ pc = "input"
    /\ allSkills = PlainCatalog
    /\ \E r \in 0..MaxAnalysisInput :
          /\ \E reqs \in [1..r -> Requirements], y \in RequiredYears :
                targetRole = [required_skills |-> reqs, min_experience_years |-> y]
          /\ \E cs \in SeqsUpTo(AnalysisSkillRecords, MaxAnalysisInput - r), y \in CandidateYears :
                candidate = [current_skills |-> cs, experience_years |-> y]
    /\ skillGaps = <<>>
    /\ gapAnalysis = NoResult
    /\ sorted = NoResult
    /\ roadmap = NoResult
    /\ learningPhases = NoResult
    /\ sequencer = NoResult
    /\ now = 0
    /\ analyses = <<>>
    /\ requests = <<>>
    /\ frames = <<>>
    /\ grouper = NoResult

AnalyzeGap ==
    /\ pc = "input"
    /\ gapAnalysis' = AnalyzeGapResult(candidate, targetRole)
    /\ pc' = "analyzed"
    /\ UNCHANGED <<allSkills, candidate, targetRole, skillGaps, sorted, roadmap, learningPhases, grouper, sequencer,
                   now, analyses, requests, frames>>

NextScore == AnalyzeGap

SpecScore == InitScore /\ [][NextScore]_vars

-----------------------------------------------------------------------------
(* Specification of generateRoadmap followed by getLearningPhases, over a  *)
(* catalog large enough to fill a phase                                    *)

\* length of the gap list of one generateRoadmap call; the list names each
\* skill once
MaxGapList == 5

PhaseCatalogOrder == <<"fe-001", "fe-002", "fe-003", "fe-004", "fe-005">>

PhaseCatalogIds == {PhaseCatalogOrder[i] : i \in DOMAIN PhaseCatalogOrder}

\* one difficulty of each tier: Fundamentals, Intermediate, Advanced
PhaseDifficultyLevels == {2, 5, 8}

\* difficulties that do not decrease along the catalog
PhaseDifficultyProfiles ==
    {d \in [PhaseCatalogIds -> PhaseDifficultyLevels] :
        \A i, j \in DOMAIN PhaseCatalogOrder :
            i <= j => d[PhaseCatalogOrder[i]] <= d[PhaseCatalogOrder[j]]}

\* the first skill of the catalog either has no prerequisite or requires the
\* last one, the other skills have none
PhasePrerequisites == {<<>>, <<"fe-005">>}

PhaseCatalog(d, p) ==
    [id \in PhaseCatalogIds |->
        [difficulty |-> d[id],
         typical_learning_time_weeks |-> IndexOf(PhaseCatalogOrder, id),
         prerequisites |-> IF id = "fe-001" THEN p ELSE <<>>]]

InitPhases ==
    /\ pc = "input"
    /\ \E d \in PhaseDifficultyProfiles, p \in PhasePrerequisites :
          allSkills = PhaseCatalog(d, p)
    /\ candidate = [current_skills |-> <<>>, experience_years |-> 0]
    /\ \E ids \in {l \in SeqsUpTo(PhaseCatalogIds, MaxGapList) : NoRepeat(l)} :
          skillGaps = GapList(ids)
    /\ targetRole = NoRole
    /\ gapAnalysis = NoResult
    /\ sorted = NoResult
    /\ roadmap = NoResult
    /\ learningPhases = NoResult
    /\ sequencer = NoResult
    /\ now = 0
    /\ analyses = <<>>
    /\ requests = <<>>
    /\ frames = <<>>
    /\ grouper = NoResult

GetLearningPhases ==
    /\ pc = "done"
    /\ learningPhases' = GetLearningPhasesResult(roadmap, allSkills)
    /\ pc' = "phased"
    /\ UNCHANGED <<allSkills, candidate, targetRole, skillGaps, gapAnalysis, sorted, roadmap, grouper, sequencer,
                   now, analyses, requests, frames>>

NextPhases == GenerateRoadmapEmpty \/ GenerateRoadmap \/ GetLearningPhases

SpecPhases == InitPhases /\ [][NextPhases]_vars

-----------------------------------------------------------------------------
(* Specification of groupIntoPhases, one forEach callback at a time, for   *)
(* any sequence of identifiers                                             *)

\* length of the sequence handed to groupIntoPhases
MaxSequence == 7

\* one skill of each difficulty tier
GroupCatalog ==
    Catalog([id \in CatalogIds |-> IF id = "fe-001" THEN 2 ELSE IF id = "fe-003" THEN 5 ELSE 8],
            [i \in DOMAIN CatalogOrder |-> <<>>])

InitGroup ==
    /\ pc = "grouping"
    /\ allSkills = GroupCatalog
    /\ \E ids \in SeqsUpTo(RefIds, MaxSequence) :
          grouper = [orderedSkills |-> ids, index |-> 1, g |-> EmptyGrouper]
    /\ candidate = [current_skills |-> <<>>, experience_years |-> 0]
    /\ targetRole = NoRole
    /\ skillGaps = <<>>
    /\ gapAnalysis = NoResult
    /\ sorted = NoResult
    /\ roadmap = NoResult
    /\ learningPhases = NoResult
    /\ sequencer = NoResult
    /\ now = 0
    /\ analyses = <<>>
    /\ requests = <<>>
    /\ frames = <<>>

\* one call of the forEach callback of groupIntoPhases
GroupSkill ==
    /\ pc = "grouping"
    /\ grouper.index <= Len(grouper.orderedSkills)
    /\ grouper' = [grouper EXCEPT
                      !.g = GroupStep(@, grouper.orderedSkills[grouper.index], allSkills),
                      !.index = @ + 1]
    /\ UNCHANGED <<pc, allSkills, candidate, targetRole, skillGaps, gapAnalysis, sorted,
                   roadmap, learningPhases, sequencer,
                   now, analyses, requests, frames>>

\* the end of groupIntoPhases: final phase, return
GroupReturn ==
    /\ pc = "grouping"
    /\ grouper.index > Len(grouper.orderedSkills)
    /\ learningPhases' = FinishPhases(grouper.g, allSkills)
    /\ pc' = "grouped"
    /\ UNCHANGED <<allSkills, candidate, targetRole, skillGaps, gapAnalysis, sorted,
                   roadmap, grouper, sequencer,
                   now, analyses, requests, frames>>

NextGroup == GroupSkill \/ GroupReturn

SpecGroup == InitGroup /\ [][NextGroup]_vars

-----------------------------------------------------------------------------
(* Specification of topologicalSort, one iteration of its while loop at a  *)
(* time                                                                    *)

\* size of the input of one topologicalSort call: skill ids, plus skill records
\* of the candidate, plus prerequisite entries of the whole catalog
MaxSortInput == 3

SortDifficultyLevels == {3, 7}

SortDifficultyProfiles ==
    {d \in [CatalogIds -> SortDifficultyLevels] :
        \A i, j \in DOMAIN CatalogOrder : i <= j => d[CatalogOrder[i]] <= d[CatalogOrder[j]]}

InitSort ==
    /\ pc = "input"
    /\ \E e \in 0..MaxSortInput : \E c \in 0..(MaxSortInput - e) :
          /\ \E d \in SortDifficultyProfiles, pr \in PrereqsOfSize(Len(CatalogOrder), e) :
                allSkills = Catalog(d, pr)
          /\ \E cs \in [1..c -> CandidateSkillRecords] :
                candidate = [current_skills |-> cs, experience_years |-> 0]
          /\ \E ids \in SeqsUpTo(RefIds, MaxSortInput - e - c) :
                skillGaps = GapList(ids)
    /\ targetRole = NoRole
    /\ gapAnalysis = NoResult
    /\ sorted = NoResult
    /\ roadmap = NoResult
    /\ learningPhases = NoResult
    /\ grouper = NoResult
    /\ sequencer = NoResult
    /\ now = 0
    /\ analyses = <<>>
    /\ requests = <<>>
    /\ frames = <<>>

\* topologicalSort up to its while loop: the graph, the in-degrees, the queue
SortBegin ==
    /\ pc = "input"
    /\ LET st == BuildGraph(SkillsToLearn(skillGaps), allSkills,
                            CandidateSkillMap(candidate.current_skills))
       IN sequencer' = [skillIds |-> st.skillIds, graph |-> st.graph, keys |-> st.keys,
                        k |-> [queue |-> InitialQueue(st), result |-> <<>>,
                               inDegree |-> st.inDegree]]
    /\ pc' = "sorting"
    /\ UNCHANGED <<allSkills, candidate, targetRole, skillGaps, gapAnalysis, sorted, roadmap,
                   learningPhases, grouper,
                   now, analyses, requests, frames>>

\* one iteration of the while loop
SortEmit ==
    /\ pc = "sorting"
    /\ Len(sequencer.k.queue) > 0
    /\ sequencer' = [sequencer EXCEPT !.k = KahnStep(@, sequencer.graph, allSkills)]
    /\ UNCHANGED <<pc, allSkills, candidate, targetRole, skillGaps, gapAnalysis, sorted,
                   roadmap, learningPhases, grouper,
                   now, analyses, requests, frames>>

\* the queue is empty: return result
SortReturn ==
    /\ pc = "sorting"
    /\ Len(sequencer.k.queue) = 0
    /\ sorted' = [skillIds |-> sequencer.skillIds, graph |-> sequencer.graph,
                  inDegree |-> sequencer.k.inDegree, keys |-> sequencer.keys,
                  result |-> sequencer.k.result]
    /\ pc' = "sorted"
    /\ UNCHANGED <<allSkills, candidate, targetRole, skillGaps, gapAnalysis, roadmap,
                   learningPhases, grouper, sequencer,
                   now, analyses, requests, frames>>

NextSort == SortBegin \/ SortEmit \/ SortReturn

SpecSort == InitSort /\ [][NextSort]_vars

-----------------------------------------------------------------------------
(* Specification of topologicalSort run to completion                      *)

\* size of the input of a call that is followed to its end: gap entries plus
\* prerequisite entries
MaxFairInput == 3

\* the skills the gap list of such a call names
FairIds == {"fe-003", "fe-005"}

\* the catalog difficulties of the calls followed to their end
FairDifficulties == [id \in CatalogIds |-> IF id = "fe-005" THEN 7 ELSE 3]

\* prerequisite lists with e entries in all: fe-003 and fe-005 name catalog
\* skills, themselves and each other included; fe-001 names none
FairPrereqs(e) ==
    {pr \in PrereqsOfSize(Len(CatalogOrder), e) :
        /\ pr[1] = <<>>
        /\ \A i \in DOMAIN pr : \A j \in DOMAIN pr[i] : pr[i][j] \in CatalogIds}

\* the inputs of the calls followed to their end
FairInputs ==
    UNION {[prerequisites : FairPrereqs(e), ids : SeqsUpTo(FairIds, MaxFairInput - e)] :
              e \in 0..MaxFairInput}

\* a candidate without skills: every prerequisite named is inserted
InitSortFair ==
    /\ pc = "input"
    /\ \E in \in FairInputs :
          /\ allSkills = Catalog(FairDifficulties, in.prerequisites)
          /\ skillGaps = GapList(in.ids)
    /\ candidate = [current_skills |-> <<>>, experience_years |-> 0]
    /\ targetRole = NoRole
    /\ gapAnalysis = NoResult
    /\ sorted = NoResult
    /\ roadmap = NoResult
    /\ learningPhases = NoResult
    /\ grouper = NoResult
    /\ sequencer = NoResult
    /\ now = 0
    /\ analyses = <<>>
    /\ requests = <<>>
    /\ frames = <<>>

\* the loop is synchronous code: once entered, it takes the next iteration, or
\* the return, as long as there is one to take
SpecSortFair == InitSortFair /\ [][NextSort]_vars /\ WF_vars(SortEmit) /\ WF_vars(SortReturn)

-----------------------------------------------------------------------------
(* Specification of generateAnalysis (analyzeGap, then generateRoadmap on  *)
(* the gaps found) followed by getLearningPhases                           *)

\* size of the input of one generateAnalysis call: requirements of the role,
\* plus skill records of the candidate, plus prerequisite entries of the catalog
MaxPipelineInput == 3

PipelineMinimumLevels == {5, 6}

\* catalogs whose first skill is easy and whose last skill is hard
PipelineDifficultyProfiles ==
    {d \in DifficultyProfiles : d["fe-001"] = 2 /\ d["fe-005"] = 5}

PipelineRequirements ==
    [skill_id : RefIds, minimum_proficiency : PipelineMinimumLevels, importance : {"High"}]

InitAnalysis ==
    /\ pc = "input"
    /\ \E e \in 0..MaxPipelineInput : \E c \in 0..(MaxPipelineInput - e) :
          /\ \E d \in PipelineDifficultyProfiles, pr \in PrereqsOfSize(Len(CatalogOrder), e) :
                allSkills = Catalog(d, pr)
          /\ \E cs \in [1..c -> CandidateSkillRecords] :
                candidate = [current_skills |-> cs, experience_years |-> 1]
          /\ \E reqs \in SeqsUpTo(PipelineRequirements, MaxPipelineInput - e - c) :
                targetRole = [required_skills |-> reqs, min_experience_years |-> 2]
    /\ skillGaps = <<>>
    /\ gapAnalysis = NoResult
    /\ sorted = NoResult
    /\ roadmap = NoResult
    /\ learningPhases = NoResult
    /\ grouper = NoResult
    /\ sequencer = NoResult
    /\ now = 0
    /\ analyses = <<>>
    /\ requests = <<>>
    /\ frames = <<>>

\* GenerateAnalysisRoadmap with the inserted prerequisites pushed onto the gap
\* list of the analysis
GenerateAnalysisRoadmapExtendingGaps ==
    /\ pc = "analyzed"
    /\ LET working == TopologicalSortFull(SkillsToLearn(gapAnalysis.missing_skills), allSkills,
                                          CandidateSkillMap(candidate.current_skills))
       IN /\ gapAnalysis' = [gapAnalysis EXCEPT !.missing_skills = GapList(working.skillIds)]
          /\ sorted' = working
    /\ skillGaps' = gapAnalysis.missing_skills
    /\ roadmap' = GenerateRoadmapResult(candidate, gapAnalysis.missing_skills, allSkills)
    /\ pc' = "done"
    /\ UNCHANGED <<allSkills, candidate, targetRole, learningPhases, grouper, sequencer,
                   now, analyses, requests, frames>>

\* step 2 of generateAnalysis: generateRoadmap called with gapAnalysis.missing_skills
GenerateAnalysisRoadmap ==
    /\ pc = "analyzed"
    /\ skillGaps' = gapAnalysis.missing_skills
    /\ sorted' = IF Len(gapAnalysis.missing_skills) = 0 THEN sorted
                 ELSE TopologicalSortFull(SkillsToLearn(gapAnalysis.missing_skills), allSkills,
                                          CandidateSkillMap(candidate.current_skills))
    /\ roadmap' = GenerateRoadmapResult(candidate, gapAnalysis.missing_skills, allSkills)
    /\ pc' = "done"
    /\ UNCHANGED <<allSkills, candidate, targetRole, gapAnalysis, learningPhases, grouper,
                   sequencer,
                   now, analyses, requests, frames>>

NextAnalysis == AnalyzeGap \/ GenerateAnalysisRoadmap \/ GetLearningPhases

SpecAnalysis == InitAnalysis /\ [][NextAnalysis]_vars

-----------------------------------------------------------------------------
(* Specification of repeated generateAnalysis calls on the same arguments  *)

\* size of the input of the repeated call, counted as for MaxPipelineInput
MaxRepeatInput == 2

\* number of calls
MaxCalls == 2

\* latest reading of the clock
MaxClock == 1

InitRepeat ==
    /\ pc = "input"
    /\ \E e \in 0..MaxRepeatInput : \E c \in 0..(MaxRepeatInput - e) :
          /\ \E d \in PipelineDifficultyProfiles, pr \in PrereqsOfSize(Len(CatalogOrder), e) :
                allSkills = Catalog(d, pr)
          /\ \E cs \in [1..c -> CandidateSkillRecords] :
                candidate = [current_skills |-> cs, experience_years |-> 1]
          /\ \E reqs \in SeqsUpTo(PipelineRequirements, MaxRepeatInput - e - c) :
                targetRole = [required_skills |-> reqs, min_experience_years |-> 2]
    /\ skillGaps = <<>>
    /\ gapAnalysis = NoResult
    /\ sorted = NoResult
    /\ roadmap = NoResult
    /\ learningPhases = NoResult
    /\ grouper = NoResult
    /\ sequencer = NoResult
    /\ now = 0
    /\ analyses = <<>>
    /\ requests = <<>>
    /\ frames = <<>>

\* one call of generateAnalysis; the clock does not run backwards
GenerateAnalysis ==
    /\ pc = "input"
    /\ Len(analyses) < MaxCalls
    /\ \E generatedAt \in now..MaxClock : \E returnedAt \in generatedAt..MaxClock :
          /\ analyses' = Append(analyses,
                                GenerateAnalysisResult(candidate, targetRole, allSkills,
                                                       generatedAt, returnedAt))
          /\ now' = returnedAt
    /\ UNCHANGED <<pc, allSkills, candidate, targetRole, skillGaps, gapAnalysis, sorted,
                   roadmap, learningPhases, grouper, sequencer, requests, frames>>

NextRepeat == GenerateAnalysis

SpecRepeat == InitRepeat /\ [][NextRepeat]_vars

-----------------------------------------------------------------------------
(* Specification of two generateRoadmap calls that share the catalog and   *)
(* whose steps interleave                                                  *)

\* length of the gap list of one request
MaxRequestGaps == 2

Requests == {1, 2}

\* FrameOf with one storage for all calls, as module-level variables would be
FrameShared(r) == 1

\* the storage of the locals of call r: skillMap, graph, inDegree, queue, result,
\* phases, currentPhase, globalOrder and learningPath are declared inside the
\* functions, so every call has its own
FrameOf(r) == r

EmptySequencer ==
    [skillIds |-> <<>>, graph |-> <<>>, keys |-> <<>>,
     k |-> [queue |-> <<>>, result |-> <<>>, inDegree |-> <<>>]]

EmptyFrame ==
    [sequencer |-> EmptySequencer,
     grouper   |-> [orderedSkills |-> <<>>, index |-> 1, g |-> EmptyGrouper],
     assembler |-> [phases |-> <<>>, index |-> 1, learningPath |-> <<>>, globalOrder |-> 1]]

\* fe-005 requires fe-003, which requires fe-001
SharedCatalog ==
    Catalog([id \in CatalogIds |-> IF id = "fe-001" THEN 2 ELSE 5],
            <<<<>>, <<"fe-001">>, <<"fe-003">>>>)

\* a candidate without skills, and one who holds fe-003 at the threshold
RequestCandidates ==
    {[current_skills |-> <<>>, experience_years |-> 0],
     [current_skills |-> <<[skill_id |-> "fe-003", proficiency_level |-> 5]>>,
      experience_years |-> 0]}

InitRequests ==
    /\ pc = "input"
    /\ allSkills = SharedCatalog
    /\ requests \in [Requests ->
          {[pc |-> "input", candidate |-> c, skillGaps |-> GapList(ids), result |-> NoResult] :
              c \in RequestCandidates, ids \in SeqsUpTo(CatalogIds, MaxRequestGaps)}]
    /\ frames = [r \in Requests |-> EmptyFrame]
    /\ candidate = [current_skills |-> <<>>, experience_years |-> 0]
    /\ targetRole = NoRole
    /\ skillGaps = <<>>
    /\ gapAnalysis = NoResult
    /\ sorted = NoResult
    /\ roadmap = NoResult
    /\ learningPhases = NoResult
    /\ grouper = NoResult
    /\ sequencer = NoResult
    /\ now = 0
    /\ analyses = <<>>

\* generateRoadmap of request r, the early return for an empty gap list
RequestEmpty(r) ==
    /\ requests[r].pc = "input"
    /\ Len(SkillsToLearn(requests[r].skillGaps)) = 0
    /\ requests' = [requests EXCEPT ![r].pc = "returned", ![r].result = EmptyRoadmap]
    /\ UNCHANGED <<pc, allSkills, candidate, targetRole, skillGaps, gapAnalysis, sorted,
                   roadmap, learningPhases, grouper, sequencer, now, analyses, frames>>

\* topologicalSort of request r up to its while loop
RequestBegin(r) ==
    /\ requests[r].pc = "input"
    /\ Len(SkillsToLearn(requests[r].skillGaps)) > 0
    /\ LET st == BuildGraph(SkillsToLearn(requests[r].skillGaps), allSkills,
                            CandidateSkillMap(requests[r].candidate.current_skills))
       IN frames' = [frames EXCEPT ![FrameOf(r)] =
                        [EmptyFrame EXCEPT !.sequencer =
                            [skillIds |-> st.skillIds, graph |-> st.graph, keys |-> st.keys,
                             k |-> [queue |-> InitialQueue(st), result |-> <<>>,
                                    inDegree |-> st.inDegree]]]]
    /\ requests' = [requests EXCEPT ![r].pc = "sorting"]
    /\ UNCHANGED <<pc, allSkills, candidate, targetRole, skillGaps, gapAnalysis, sorted,
                   roadmap, learningPhases, grouper, sequencer, now, analyses>>

\* one iteration of the while loop of topologicalSort
RequestEmit(r) ==
    /\ requests[r].pc = "sorting"
    /\ Len(frames[FrameOf(r)].sequencer.k.queue) > 0
    /\ frames' = [frames EXCEPT ![FrameOf(r)].sequencer.k =
                     KahnStep(@, frames[FrameOf(r)].sequencer.graph, allSkills)]
    /\ UNCHANGED <<pc, allSkills, candidate, targetRole, skillGaps, gapAnalysis, sorted,
                   roadmap, learningPhases, grouper, sequencer, now, analyses, requests>>

\* topologicalSort returns, groupIntoPhases begins
RequestSorted(r) ==
    /\ requests[r].pc = "sorting"
    /\ Len(frames[FrameOf(r)].sequencer.k.queue) = 0
    /\ frames' = [frames EXCEPT ![FrameOf(r)].grouper =
                     [orderedSkills |-> frames[FrameOf(r)].sequencer.k.result,
                      index |-> 1, g |-> EmptyGrouper]]
    /\ requests' = [requests EXCEPT ![r].pc = "grouping"]
    /\ UNCHANGED <<pc, allSkills, candidate, targetRole, skillGaps, gapAnalysis, sorted,
                   roadmap, learningPhases, grouper, sequencer, now, analyses>>

\* one call of the forEach callback of groupIntoPhases
RequestGroup(r) ==
    /\ requests[r].pc = "grouping"
    /\ frames[FrameOf(r)].grouper.index <= Len(frames[FrameOf(r)].grouper.orderedSkills)
    /\ LET gr == frames[FrameOf(r)].grouper
       IN frames' = [frames EXCEPT ![FrameOf(r)].grouper =
                        [gr EXCEPT !.g = GroupStep(@, gr.orderedSkills[gr.index], allSkills),
                                   !.index = @ + 1]]
    /\ UNCHANGED <<pc, allSkills, candidate, targetRole, skillGaps, gapAnalysis, sorted,
                   roadmap, learningPhases, grouper, sequencer, now, analyses, requests>>

\* groupIntoPhases returns; let globalOrder = 1, learningPath = []
RequestGrouped(r) ==
    /\ requests[r].pc = "grouping"
    /\ frames[FrameOf(r)].grouper.index > Len(frames[FrameOf(r)].grouper.orderedSkills)
    /\ frames' = [frames EXCEPT ![FrameOf(r)].assembler =
                     [phases |-> FinishPhases(frames[FrameOf(r)].grouper.g, allSkills),
                      index |-> 1, learningPath |-> <<>>, globalOrder |-> 1]]
    /\ requests' = [requests EXCEPT ![r].pc = "flattening"]
    /\ UNCHANGED <<pc, allSkills, candidate, targetRole, skillGaps, gapAnalysis, sorted,
                   roadmap, learningPhases, grouper, sequencer, now, analyses>>

\* one call of the phases.forEach callback: push the steps of the phase,
\* order: globalOrder++
RequestFlatten(r) ==
    /\ requests[r].pc = "flattening"
    /\ frames[FrameOf(r)].assembler.index <= Len(frames[FrameOf(r)].assembler.phases)
    /\ LET a == frames[FrameOf(r)].assembler
           steps == a.phases[a.index].skills
       IN frames' = [frames EXCEPT ![FrameOf(r)].assembler =
                        [a EXCEPT !.learningPath =
                                      @ \o [i \in DOMAIN steps |->
                                               [steps[i] EXCEPT !.order = a.globalOrder + i - 1]],
                                  !.globalOrder = @ + Len(steps),
                                  !.index = @ + 1]]
    /\ UNCHANGED <<pc, allSkills, candidate, targetRole, skillGaps, gapAnalysis, sorted,
                   roadmap, learningPhases, grouper, sequencer, now, analyses, requests>>

\* totalWeeks, return
RequestReturn(r) ==
    /\ requests[r].pc = "flattening"
    /\ frames[FrameOf(r)].assembler.index > Len(frames[FrameOf(r)].assembler.phases)
    /\ requests' = [requests EXCEPT
                       ![r].pc = "returned",
                       ![r].result =
                           [skill_gaps |-> requests[r].skillGaps,
                            estimated_total_weeks |->
                                SumStepWeeks(frames[FrameOf(r)].assembler.learningPath),
                            learning_path |-> frames[FrameOf(r)].assembler.learningPath]]
    /\ UNCHANGED <<pc, allSkills, candidate, targetRole, skillGaps, gapAnalysis, sorted,
                   roadmap, learningPhases, grouper, sequencer, now, analyses, frames>>

NextRequests ==
    \E r \in Requests :
        \/ RequestEmpty(r)
        \/ RequestBegin(r)
        \/ RequestEmit(r)
        \/ RequestSorted(r)
        \/ RequestGroup(r)
        \/ RequestGrouped(r)
        \/ RequestFlatten(r)
        \/ RequestReturn(r)

SpecRequests == InitRequests /\ [][NextRequests]_vars

-----------------------------------------------------------------------------
(* Specification of analyzeGap before and after the candidate gets         *)
(* stronger: one proficiency raised, one skill added, or one more year     *)

\* size of the input of the first analyzeGap call: requirements of the role
\* plus skill records of the candidate
MaxImproveInput == 3

\* the importance tiers of the roles compared
ImproveImportances == {"Critical", "Low"}

ImproveRequirements ==
    [skill_id : AnalysisIds, minimum_proficiency : MinimumLevels, importance : ImproveImportances]

\* the years of the candidate before the change
ImproveYears == {0, 1}

\* the proficiencies a candidate can rise to
ImprovedLevels == {4, 5, 6}

InitImprove ==
    /\ pc = "input"
    /\ allSkills = PlainCatalog
    /\ \E r \in 0..MaxImproveInput :
          /\ \E reqs \in [1..r -> ImproveRequirements], y \in RequiredYears :
                targetRole = [required_skills |-> reqs, min_experience_years |-> y]
          /\ \E cs \in SeqsUpTo(AnalysisSkillRecords, MaxImproveInput - r), y \in ImproveYears :
                candidate = [current_skills |-> cs, experience_years |-> y]
    /\ skillGaps = <<>>
    /\ gapAnalysis = NoResult
    /\ sorted = NoResult
    /\ roadmap = NoResult
    /\ learningPhases = NoResult
    /\ sequencer = NoResult
    /\ now = 0
    /\ analyses = <<>>
    /\ requests = <<>>
    /\ frames = <<>>
    /\ grouper = NoResult

\* the analysis is kept with the candidate it was made for, and the candidate
\* becomes stronger before the next analysis
Strengthen(stronger) ==
    /\ pc = "analyzed"
    /\ analyses = <<>>
    /\ analyses' = <<[candidate |-> candidate, analysis |-> gapAnalysis]>>
    /\ candidate' = stronger
    /\ pc' = "input"
    /\ UNCHANGED <<allSkills, targetRole, skillGaps, gapAnalysis, sorted, roadmap,
                   learningPhases, grouper, sequencer, now, requests, frames>>

\* one record of the candidate gets a higher proficiency
RaiseProficiency ==
    \E i \in DOMAIN candidate.current_skills, level \in ImprovedLevels :
        /\ level > candidate.current_skills[i].proficiency_level
        /\ Strengthen([candidate EXCEPT !.current_skills[i].proficiency_level = level])

\* the candidate lists a skill they did not list before
AddSkill ==
    \E id \in AnalysisIds, level \in ImprovedLevels :
        /\ \A i \in DOMAIN candidate.current_skills : candidate.current_skills[i].skill_id # id
        /\ Strengthen([candidate EXCEPT
                          !.current_skills = Append(@, [skill_id |-> id, proficiency_level |-> level])])

\* the candidate has one more year of experience
GainExperience ==
    Strengthen([candidate EXCEPT !.experience_years = @ + 1])

NextImprove == AnalyzeGap \/ RaiseProficiency \/ AddSkill \/ GainExperience

SpecImprove == InitImprove /\ [][NextImprove]_vars

-----------------------------------------------------------------------------
(* Vocabulary of the properties                                            *)

Done == pc = "done"

\* generateRoadmap went through topologicalSort (the gap list was not empty)
Sorted == Done /\ sorted # NoResult

Range(arr) == {arr[i] : i \in DOMAIN arr}

PathIds == [i \in DOMAIN roadmap.learning_path |-> roadmap.learning_path[i].skill_id]

GapIds == SkillsToLearn(skillGaps)

\* the candidate holds the skill at the threshold proficiency or above
Held(id) ==
    LET m == CandidateSkillMap(candidate.current_skills)
    IN id \in DOMAIN m /\ m[id].proficiency_level >= 5

\* prerequisites the catalog declares for id (none for an unknown identifier)
DeclaredPrereqs(id) ==
    IF id \in DOMAIN allSkills THEN Range(allSkills[id].prerequisites) ELSE {}

\* the skills to schedule: the gap skills, closed under "declared prerequisite
\* that the candidate does not hold"
RECURSIVE UnmetClosure(_)
UnmetClosure(S) ==
    LET more == S \cup {p \in RefIds : \E s \in S : p \in DeclaredPrereqs(s) /\ ~Held(p)}
    IN IF more = S THEN S ELSE UnmetClosure(more)

\* edges of the graph topologicalSort built, as pairs <<prerequisite, dependent>>
GraphEdges(graph) ==
    UNION {{<<p, d>> : d \in Range(graph[p])} : p \in DOMAIN graph}

RECURSIVE ReachFrom(_, _)
ReachFrom(S, E) ==
    LET more == S \cup {e[2] : e \in {x \in E : x[1] \in S}}
    IN IF more = S THEN S ELSE ReachFrom(more, E)

Acyclic(E) == \A e \in E : e[1] \notin ReachFrom({e[2]}, E)

\* declared prerequisite edges of the catalog, <<prerequisite, dependent>>
CatalogEdges ==
    UNION {{<<p, id>> : p \in Range(allSkills[id].prerequisites)} : id \in DOMAIN allSkills}

\* the data the specification calls valid: every prerequisite and every gap
\* entry names a catalog skill, and the prerequisite relation has no cycle
WellFormedInput ==
    /\ \A e \in CatalogEdges : e[1] \in DOMAIN allSkills
    /\ Range(GapIds) \subseteq DOMAIN allSkills
    /\ Acyclic(CatalogEdges)

-----------------------------------------------------------------------------
(* C1: in every roadmap generateRoadmap returns, every declared             *)
(* prerequisite of a step's skill that is itself in learning_path has a    *)
(* strictly smaller order number than the step.                            *)
(* Stated for valid input (WellFormedInput), where it already fails: an    *)
(* inserted prerequisite is never walked, so it has no incoming edge (C2). *)
C1_PrereqsHaveSmallerOrder ==
    (Done /\ WellFormedInput) =>
        \A i, j \in DOMAIN roadmap.learning_path :
            roadmap.learning_path[j].skill_id
                \in DeclaredPrereqs(roadmap.learning_path[i].skill_id)
            => roadmap.learning_path[j].order < roadmap.learning_path[i].order

(* C2: the expansion is transitive: the working set of topologicalSort     *)
(* holds every skill reachable from a gap skill through declared           *)
(* prerequisites the candidate does not hold at proficiency >= 5.          *)
(* The code visits only the skills the list held when the walk began.      *)
C2_ExpansionIsTransitive ==
    (Sorted /\ WellFormedInput) => UnmetClosure(Range(GapIds)) \subseteq Range(sorted.skillIds)

(* C3: prerequisites_met is truthful: every declared prerequisite of a     *)
(* step's skill is held by the candidate at >= 5 or stands at an earlier   *)
(* position of learning_path.                                              *)
C3_PrerequisitesMetTruthful ==
    (Done /\ WellFormedInput) =>
        \A i \in DOMAIN roadmap.learning_path :
            /\ roadmap.learning_path[i].prerequisites_met
            /\ \A p \in DeclaredPrereqs(roadmap.learning_path[i].skill_id) :
                  \/ Held(p)
                  \/ \E j \in 1..(i - 1) : roadmap.learning_path[j].skill_id = p

(* C4: when the edge set topologicalSort built over its working set is     *)
(* acyclic, its result holds every skill of the working set exactly once   *)
(* and every edge points from an earlier position to a later one, also     *)
(* for a gap list that repeats a skill.                                    *)
C4_SortIsTopological ==
    (Sorted /\ Acyclic(GraphEdges(sorted.graph))) =>
        /\ Range(sorted.result) = Range(sorted.skillIds)
        /\ NoRepeat(sorted.result)
        /\ \A e \in GraphEdges(sorted.graph) :
              IndexOf(sorted.result, e[1]) < IndexOf(sorted.result, e[2])

\* a repeated gap skill with an inserted prerequisite, sorted
C4_Witness ==
    /\ Sorted
    /\ Acyclic(GraphEdges(sorted.graph))
    /\ ~NoRepeat(GapIds)
    /\ Range(sorted.skillIds) # Range(GapIds)
    /\ GraphEdges(sorted.graph) # {}
    /\ Len(sorted.result) >= 2

-----------------------------------------------------------------------------
(* Vocabulary of the analyzeGap properties                                 *)

Analyzed == pc = "analyzed"

Required == targetRole.required_skills

\* the proficiency the candidate lists for id: the last record naming it, 0 when
\* no record names it
LevelOf(id) ==
    LET cs == candidate.current_skills
        named == {i \in DOMAIN cs : cs[i].skill_id = id}
    IN IF named = {} THEN 0
       ELSE cs[CHOOSE i \in named : \A j \in named : j <= i].proficiency_level

\* the requirements whose minimum the candidate does not reach, in role order
UnmetRequirements == SelectSeq(Required, LAMBDA r : LevelOf(r.skill_id) < r.minimum_proficiency)

MatchedFailing == SelectSeq(gapAnalysis.matched_skills, LAMBDA m : ~m.meets_requirement)

(* C5: analyzeGap emits one matched_skills entry per required skill, and a *)
(* SkillGap for a requirement iff the candidate's proficiency (0 when not  *)
(* listed) is strictly below the minimum; the gap list is exactly the      *)
(* matched entries that do not meet their requirement.                     *)
C5_GapIffBelowMinimum ==
    Analyzed =>
        /\ Len(gapAnalysis.matched_skills) = Len(Required)
        /\ \A i \in DOMAIN Required :
              /\ gapAnalysis.matched_skills[i].skill_id = Required[i].skill_id
              /\ gapAnalysis.matched_skills[i].current_proficiency = LevelOf(Required[i].skill_id)
              /\ gapAnalysis.matched_skills[i].meets_requirement
                    <=> LevelOf(Required[i].skill_id) >= Required[i].minimum_proficiency
        /\ Len(gapAnalysis.missing_skills) = Len(UnmetRequirements)
        /\ \A i \in DOMAIN UnmetRequirements :
              gapAnalysis.missing_skills[i].skill_id = UnmetRequirements[i].skill_id
        /\ [i \in DOMAIN gapAnalysis.missing_skills |-> gapAnalysis.missing_skills[i].skill_id]
              = [i \in DOMAIN MatchedFailing |-> MatchedFailing[i].skill_id]

\* a role with a met requirement (proficiency equal to the minimum) and an unmet one
C5_Witness ==
    /\ Analyzed
    /\ Len(gapAnalysis.missing_skills) >= 1
    /\ \E i \in DOMAIN Required :
          /\ Required[i].minimum_proficiency > 0
          /\ LevelOf(Required[i].skill_id) = Required[i].minimum_proficiency
          /\ gapAnalysis.matched_skills[i].meets_requirement

(* C6: the readiness score of analyzeGap is an integer in 0..100, also for *)
(* zero required skills, zero required years and a minimum proficiency 0.  *)
C6_ScoreInRange ==
    Analyzed =>
        /\ ~gapAnalysis.readiness_score.nan
        /\ gapAnalysis.readiness_score.value \in 0..100

\* the ratio 0 / 0: a requirement of minimum 0 for a skill the candidate lacks,
\* with no experience required
C6_Witness ==
    /\ Analyzed
    /\ targetRole.min_experience_years = 0
    /\ \E i \in DOMAIN Required :
          Required[i].minimum_proficiency = 0 /\ LevelOf(Required[i].skill_id) = 0
    /\ gapAnalysis.readiness_score.value = 0

(* C7: a candidate who holds no skill scores 0 against every role with at  *)
(* least one required skill, whatever the experience years.                *)
(* The code's short-circuit tests matchedSkills, which has one entry per   *)
(* requirement, so the experience component still counts.                  *)
C7_NoSkillsScoresZero ==
    (Analyzed /\ candidate.current_skills = <<>> /\ Len(Required) >= 1) =>
        gapAnalysis.readiness_score = JsInt(0)

\* the experience component of the score, in points: 100 * min(years / required, 1),
\* and 100 when no experience is required
ExperiencePoints ==
    IF targetRole.min_experience_years = 0 THEN Rat(100, 1)
    ELSE IF candidate.experience_years >= targetRole.min_experience_years THEN Rat(100, 1)
    ELSE Rat(100 * candidate.experience_years, targetRole.min_experience_years)

\* k = round(x) for x = a.n / a.d >= 0: k - 1/2 <= x < k + 1/2
IsRoundOf(k, a) ==
    /\ (2 * k - 1) * a.d <= 2 * a.n
    /\ 2 * a.n < (2 * k + 1) * a.d

(* C8: with zero required skills only the skill component is fixed at 100: *)
(* the score is round(100 * 0.7 + experienceComponent * 0.3).              *)
(* The code returns 100 before it looks at the experience.                 *)
C8_NoRequirementsStillCountsExperience ==
    (Analyzed /\ Len(Required) = 0) =>
        IsRoundOf(gapAnalysis.readiness_score.value,
                  RatAdd(Rat(70, 1), RatMul(ExperiencePoints, Rat(3, 10))))

\* weights of the importance tiers, in tenths
WeightTenths(importance) ==
    CASE importance = "Critical" -> 15
      [] importance = "High" -> 12
      [] importance = "Medium" -> 10
      [] importance = "Low" -> 8

RECURSIVE ProductOfMinimums(_)
ProductOfMinimums(reqs) ==
    IF reqs = <<>> THEN 1 ELSE Head(reqs).minimum_proficiency * ProductOfMinimums(Tail(reqs))

RECURSIVE SumOfWeights(_)
SumOfWeights(reqs) ==
    IF reqs = <<>> THEN 0 ELSE WeightTenths(Head(reqs).importance) + SumOfWeights(Tail(reqs))

\* sum of w * min(current, required) / required, times the common denominator R
RECURSIVE WeightedRatios(_, _)
WeightedRatios(reqs, R) ==
    IF reqs = <<>> THEN 0
    ELSE LET r == Head(reqs)
             c == LevelOf(r.skill_id)
             capped == IF c < r.minimum_proficiency THEN c ELSE r.minimum_proficiency
         IN WeightTenths(r.importance) * capped * (R \div r.minimum_proficiency)
            + WeightedRatios(Tail(reqs), R)

\* 0.7 * S + 0.3 * E as one fraction
WeightedScore ==
    LET R == ProductOfMinimums(Required)
        W == SumOfWeights(Required)
        E == ExperiencePoints
    IN [nan |-> FALSE,
        n |-> 7 * 100 * WeightedRatios(Required, R) * E.d + 3 * E.n * R * W,
        d |-> 10 * R * W * E.d]

DistinctRequirements ==
    \A i, j \in DOMAIN Required : Required[i].skill_id = Required[j].skill_id => i = j

ReferenceError == [error |-> "ReferenceError"]

\* a gap entry or a prerequisite list names an identifier outside the catalog
NamesAbsentSkill ==
    \/ \E i \in DOMAIN GapIds : GapIds[i] \notin DOMAIN allSkills
    \/ \E id \in DOMAIN allSkills :
          \E p \in Range(allSkills[id].prerequisites) : p \notin DOMAIN allSkills

(* C10: when a gap entry or a prerequisite names an identifier absent from *)
(* the catalog, generateRoadmap reports an error and returns no roadmap.   *)
C10_AbsentSkillIsAnError ==
    (Done /\ NamesAbsentSkill) => roadmap = ReferenceError

-----------------------------------------------------------------------------
(* C11: for an empty gap list generateRoadmap returns, without error, a    *)
(* roadmap whose learning_path is empty, whose skill_gaps is empty and     *)
(* whose estimated_total_weeks is 0.                                       *)
C11_EmptyGapListEmptyRoadmap ==
    (Done /\ skillGaps = <<>>) =>
        roadmap = [skill_gaps |-> <<>>, estimated_total_weeks |-> 0, learning_path |-> <<>>]

\* an empty gap list for a candidate with skill records, over a catalog that
\* declares prerequisites
C11_Witness ==
    /\ Done
    /\ skillGaps = <<>>
    /\ candidate.current_skills # <<>>
    /\ CatalogEdges # {}
    /\ roadmap.learning_path = <<>>

\* sum of estimated_weeks over the first n steps of learning_path
RECURSIVE WeeksOfSteps(_)
WeeksOfSteps(n) ==
    IF n = 0 THEN 0 ELSE WeeksOfSteps(n - 1) + roadmap.learning_path[n].estimated_weeks

(* C13: in every roadmap of generateRoadmap the step at position k has     *)
(* order k (1..n, no gap or repeat across phase boundaries) and            *)
(* estimated_total_weeks is the sum of the steps' estimated_weeks.         *)
C13_OrderIsPosition ==
    Done =>
        /\ \A k \in DOMAIN roadmap.learning_path : roadmap.learning_path[k].order = k
        /\ roadmap.estimated_total_weeks = WeeksOfSteps(Len(roadmap.learning_path))

\* a path of three steps whose last step lies in a second phase
C13_Witness ==
    /\ Done
    /\ Len(roadmap.learning_path) = 3
    /\ roadmap.learning_path[2].reason[1] = 1
    /\ roadmap.learning_path[3].reason[1] = 2
    /\ roadmap.estimated_total_weeks = 7

-----------------------------------------------------------------------------
(* Vocabulary of the getLearningPhases properties                          *)

Phased == pc = "phased"

\* skill_ids of the steps of the first n phases, in phase order
RECURSIVE PhaseIdsUpTo(_)
PhaseIdsUpTo(n) ==
    IF n = 0 THEN <<>>
    ELSE PhaseIdsUpTo(n - 1)
            \o [i \in DOMAIN learningPhases[n].skills |-> learningPhases[n].skills[i].skill_id]

RECURSIVE PhaseWeeksUpTo(_)
PhaseWeeksUpTo(n) ==
    IF n = 0 THEN 0 ELSE PhaseWeeksUpTo(n - 1) + learningPhases[n].estimated_weeks

(* C12: for a roadmap of generateRoadmap over a catalog that holds every   *)
(* referenced skill, the phases of getLearningPhases concatenate, in phase *)
(* order, to the skill sequence of learning_path, and their                *)
(* estimated_weeks add up to estimated_total_weeks.                        *)
C12_PhasesPartitionPath ==
    (Phased /\ ~NamesAbsentSkill) =>
        /\ PhaseIdsUpTo(Len(learningPhases)) = PathIds
        /\ PhaseWeeksUpTo(Len(learningPhases)) = roadmap.estimated_total_weeks

\* five steps regrouped into a full phase of four, then a phase closed by a
\* difficulty jump
C12_Witness ==
    /\ Phased
    /\ Len(roadmap.learning_path) = 5
    /\ Len(learningPhases) >= 2
    /\ Len(learningPhases[1].skills) = 4
    /\ PathIds # GapIds
    /\ roadmap.estimated_total_weeks = 15

-----------------------------------------------------------------------------
(* Vocabulary of the groupIntoPhases properties                            *)

Grouping == pc = "grouping"

Grouped == pc = "grouped"

(* C14: for every input sequence, every phase groupIntoPhases produces     *)
(* holds at least 1 and at most 4 skills, the last phase included; during  *)
(* the walk neither a closed phase nor the buffer exceeds 4.               *)
C14_PhaseSizeBounded ==
    /\ Grouped =>
          \A n \in DOMAIN learningPhases :
              Len(learningPhases[n].skills) >= 1 /\ Len(learningPhases[n].skills) <= 4
    /\ Grouping =>
          /\ Len(grouper.g.currentPhase) <= 4
          /\ \A n \in DOMAIN grouper.g.phases :
                Len(grouper.g.phases[n].skills) >= 1 /\ Len(grouper.g.phases[n].skills) <= 4

\* six times the same skill: a phase of four closed
\* by size, then a last phase of two
C14_Witness ==
    /\ Grouped
    /\ Len(grouper.orderedSkills) = 6
    /\ Range(grouper.orderedSkills) = {"fe-003"}
    /\ Len(learningPhases) = 2
    /\ Len(learningPhases[1].skills) = 4
    /\ Len(learningPhases[2].skills) = 2

-----------------------------------------------------------------------------
(* Vocabulary of the topologicalSort loop properties                       *)

Sorting == pc = "sorting"

\* the skills ready to be emitted: in-degree 0 and not yet in the result
ReadySkills ==
    {id \in DOMAIN sequencer.k.inDegree :
        sequencer.k.inDegree[id] = 0 /\ ~Includes(sequencer.k.result, id)}

(* C15: at every iteration of the sequencer's loop the skill appended to   *)
(* the result has the lowest catalog difficulty among the skills then      *)
(* ready (in-degree 0, not yet emitted), which are the skills of the       *)
(* queue; of two independent skills of difficulty 3 and 7 the one of       *)
(* difficulty 3 comes first.                                               *)
C15_EasiestReadySkillFirst ==
    [][(Sorting /\ Len(sequencer.k.queue) > 0 /\ sequencer' # sequencer) =>
          LET emitted == sequencer'.k.result[Len(sequencer'.k.result)]
          IN /\ Range(sequencer.k.queue) = ReadySkills
             /\ emitted \in ReadySkills
             /\ \A id \in ReadySkills :
                   DifficultyOf(allSkills, emitted) <= DifficultyOf(allSkills, id)]_vars

\* two skills without prerequisites, the one of difficulty 7 listed first: the
\* one of difficulty 3 has been emitted and the other still waits
C15_Witness ==
    /\ Sorting
    /\ Len(sequencer.skillIds) = 2
    /\ GraphEdges(sequencer.graph) = {}
    /\ DifficultyOf(allSkills, sequencer.skillIds[1]) = 7
    /\ DifficultyOf(allSkills, sequencer.skillIds[2]) = 3
    /\ sequencer.k.result = <<sequencer.skillIds[2]>>
    /\ sequencer.k.queue = <<sequencer.skillIds[1]>>

-----------------------------------------------------------------------------
\* rank of a priority tier, the most urgent first
PriorityRank(priority) ==
    CASE priority = "Critical" -> 1
      [] priority = "High" -> 2
      [] priority = "Medium" -> 3
      [] priority = "Low" -> 4

(* C19: the gap list of analyzeGap is ranked by priority: every Critical   *)
(* gap before every High gap, every High before every Medium, every Medium *)
(* before every Low.                                                       *)
(* The code emits the gaps in the order of the role's requirements; stated *)
(* for roles that name each skill once, where it already fails.            *)
C19_GapsRankedByPriority ==
    (Analyzed /\ DistinctRequirements) =>
        \A i, j \in DOMAIN gapAnalysis.missing_skills :
            i < j => PriorityRank(gapAnalysis.missing_skills[i].priority)
                        <= PriorityRank(gapAnalysis.missing_skills[j].priority)

-----------------------------------------------------------------------------
(* C17: analyzeGap, generateRoadmap, generateAnalysis and getLearningPhases *)
(* leave their inputs unchanged: no step changes the catalog (prerequisite *)
(* lists included), the candidate's records or the role's requirements;    *)
(* the gap list handed to generateRoadmap and the roadmap handed to        *)
(* getLearningPhases are after the call what they were before it, also     *)
(* when prerequisites are inserted into the working set.                   *)
C17_InputsUnchanged ==
    [][/\ allSkills' = allSkills
       /\ candidate' = candidate
       /\ targetRole' = targetRole
       /\ gapAnalysis # NoResult => gapAnalysis' = gapAnalysis
       /\ roadmap # NoResult => roadmap' = roadmap
       /\ roadmap' # NoResult => roadmap'.skill_gaps = gapAnalysis.missing_skills]_vars

\* the whole pipeline has run, a prerequisite was inserted into the working
\* set, and the gap list is still the one analyzeGap returned
C17_Witness ==
    /\ Phased
    /\ sorted # NoResult
    /\ Len(sorted.skillIds) > Len(skillGaps)
    /\ Len(roadmap.learning_path) > Len(skillGaps)
    /\ gapAnalysis.missing_skills = skillGaps
    /\ CatalogEdges # {}
    /\ candidate.current_skills # <<>>

\* every gap skill is a catalog skill, and every prerequisite the catalog
\* declares for a gap skill is held at proficiency >= 5 and is not a gap skill
PrerequisitesAllHeld ==
    /\ Range(GapIds) \subseteq DOMAIN allSkills
    /\ \A id \in Range(GapIds) : \A p \in DeclaredPrereqs(id) :
          LevelOf(p) >= 5 /\ p \notin Range(GapIds)

(* C20: when every catalog prerequisite of every gap skill is held at      *)
(* proficiency >= 5 (5 included) and is not a gap skill, nothing is        *)
(* inserted: the roadmap holds exactly the gap skills, each with the weeks *)
(* of its catalog entry; and for a role whose only requirement (minimum 6) *)
(* names a skill the candidate lacks, the gap list has one entry of gap    *)
(* score 6 and the first step of the roadmap is that skill.                *)
C20_HeldPrerequisitesNotInserted ==
    (Done /\ PrerequisitesAllHeld) =>
        /\ sorted # NoResult => Range(sorted.skillIds) = Range(GapIds)
        /\ Range(PathIds) = Range(GapIds)
        /\ NoRepeat(PathIds)
        /\ \A i \in DOMAIN roadmap.learning_path :
              roadmap.learning_path[i].estimated_weeks
                  = allSkills[roadmap.learning_path[i].skill_id].typical_learning_time_weeks
        /\ (/\ Len(Required) = 1
            /\ Required[1].minimum_proficiency = 6
            /\ LevelOf(Required[1].skill_id) = 0) =>
               /\ Len(gapAnalysis.missing_skills) = 1
               /\ gapAnalysis.missing_skills[1].skill_id = Required[1].skill_id
               /\ gapAnalysis.missing_skills[1].gap_score = 6
               /\ Len(roadmap.learning_path) = 1
               /\ roadmap.learning_path[1].skill_id = Required[1].skill_id

\* fe-005 required at 6 and absent from the candidate's skills; its one
\* prerequisite is held at exactly 5
C20_Witness ==
    /\ Done
    /\ PrerequisitesAllHeld
    /\ GapIds = <<"fe-005">>
    /\ gapAnalysis.missing_skills[1].gap_score = 6
    /\ Len(allSkills["fe-005"].prerequisites) = 1
    /\ LevelOf(allSkills["fe-005"].prerequisites[1]) = 5
    /\ PathIds = <<"fe-005">>
    /\ roadmap.estimated_total_weeks = 4

-----------------------------------------------------------------------------
\* what a CompleteAnalysis holds besides its timestamps
Outcome(analysis) ==
    <<analysis.gap_analysis.readiness_score,
      analysis.gap_analysis.matched_skills,
      analysis.gap_analysis.missing_skills,
      analysis.learning_roadmap.learning_path,
      analysis.learning_roadmap.estimated_total_weeks>>

-----------------------------------------------------------------------------
(* C18: two requests that share the catalog and whose steps interleave in  *)
(* any order each return what the request returns when it runs alone: no   *)
(* working set, graph, in-degree map, queue, phase buffer or order counter *)
(* written by one request is read by the other.                            *)
C18_InterleavedRequestsIndependent ==
    \A r \in Requests :
        requests[r].pc = "returned" =>
            requests[r].result
                = GenerateRoadmapResult(requests[r].candidate, requests[r].skillGaps, allSkills)

\* request 2 has run from its first step to its return while request 1 stands
\* in the middle of groupIntoPhases, one of its three skills grouped
C18_Witness ==
    /\ requests[1].pc = "grouping"
    /\ Len(frames[1].grouper.orderedSkills) = 3
    /\ frames[1].grouper.index = 2
    /\ requests[2].pc = "returned"
    /\ Len(requests[2].result.learning_path) = 2
    /\ requests[2].result.learning_path[2].order = 2

-----------------------------------------------------------------------------
\* identifiers the role's requirements name
RequiredIds == {Required[i].skill_id : i \in DOMAIN Required}

-----------------------------------------------------------------------------
\* skills that lie on a cycle of the edges E
OnCycle(E) == {e[1] : e \in {x \in E : x[1] \in ReachFrom({x[2]}, E)}}

\* skills on a cycle of E or reachable from one along E
BlockedByCycle(E) == ReachFrom(OnCycle(E), E)

(* C22: when the edges topologicalSort built over the working set contain  *)
(* a cycle, generateRoadmap still returns a roadmap (no error), the        *)
(* roadmap has strictly fewer skills than the working set, and no skill on *)
(* a cycle or reachable from one along prerequisite -> dependent edges is  *)
(* in learning_path.                                                       *)
C22_CycleSkillsSilentlyDropped ==
    (Sorted /\ ~Acyclic(GraphEdges(sorted.graph))) =>
        /\ roadmap # ReferenceError
        /\ DOMAIN roadmap = {"skill_gaps", "estimated_total_weeks", "learning_path"}
        /\ Len(roadmap.learning_path) < Cardinality(DOMAIN sorted.graph)
        /\ \A s \in BlockedByCycle(GraphEdges(sorted.graph)) : ~Includes(PathIds, s)

\* fe-003 names itself as a prerequisite and fe-005, on no cycle, depends on it
C22_Witness ==
    /\ Sorted
    /\ GapIds = <<"fe-003", "fe-005">>
    /\ OnCycle(GraphEdges(sorted.graph)) = {"fe-003"}
    /\ PathIds = <<>>
    /\ OnCycle(GraphEdges(sorted.graph)) # {}
    /\ BlockedByCycle(GraphEdges(sorted.graph)) # OnCycle(GraphEdges(sorted.graph))

-----------------------------------------------------------------------------
(* C23: the SkillGap entries of analyzeGap are, in order, those of the     *)
(* requirements the candidate does not meet, and each has                  *)
(* required_proficiency = the requirement's minimum, current_proficiency = *)
(* the candidate's proficiency in the skill (0 when not listed),           *)
(* gap_score = required - current, strictly positive, and priority = the   *)
(* requirement's importance.                                               *)
C23_GapFields ==
    Analyzed =>
        /\ Len(gapAnalysis.missing_skills) = Len(UnmetRequirements)
        /\ \A i \in DOMAIN gapAnalysis.missing_skills :
              LET gap == gapAnalysis.missing_skills[i]
                  requirement == UnmetRequirements[i]
              IN /\ gap.skill_id = requirement.skill_id
                 /\ gap.required_proficiency = requirement.minimum_proficiency
                 /\ gap.current_proficiency = LevelOf(gap.skill_id)
                 /\ gap.gap_score = gap.required_proficiency - gap.current_proficiency
                 /\ gap.gap_score > 0
                 /\ gap.priority = requirement.importance

\* one gap for a skill the candidate lacks and one for a skill held at 4, of
\* different importance
C23_Witness ==
    /\ Analyzed
    /\ Len(gapAnalysis.missing_skills) = 2
    /\ gapAnalysis.missing_skills[1].current_proficiency = 0
    /\ gapAnalysis.missing_skills[1].gap_score = 5
    /\ gapAnalysis.missing_skills[1].priority = "Critical"
    /\ gapAnalysis.missing_skills[2].current_proficiency = 4
    /\ gapAnalysis.missing_skills[2].gap_score = 1
    /\ gapAnalysis.missing_skills[2].priority = "Low"

-----------------------------------------------------------------------------
\* the skills of a phase, in order
StepIds(phase) == [j \in DOMAIN phase.skills |-> phase.skills[j].skill_id]

\* the average catalog difficulty of the skills of a phase, as a ratio
AverageDifficulty(phase) == Rat(SumDifficulty(StepIds(phase), allSkills), Len(phase.skills))

(* C24: every phase groupIntoPhases returns is labelled by the average     *)
(* catalog difficulty of its skills: "Advanced" when the average is >= 7,  *)
(* "Intermediate" when it is >= 4 and below 7, "Fundamentals" otherwise;   *)
(* the phase numbers are 1, 2, 3, ... in output order.                     *)
C24_PhaseLabelAndNumber ==
    Grouped =>
        \A i \in DOMAIN learningPhases :
            LET phase == learningPhases[i]
                avg == AverageDifficulty(phase)
            IN /\ phase.phase_number = i
               /\ Len(phase.skills) > 0
               /\ phase.phase_name = "Advanced" <=> ~RatLess(avg, Rat(7, 1))
               /\ phase.phase_name = "Intermediate"
                     <=> (~RatLess(avg, Rat(4, 1)) /\ RatLess(avg, Rat(7, 1)))
               /\ phase.phase_name = "Fundamentals" <=> RatLess(avg, Rat(4, 1))

\* three phases, one of each label; the third mixes difficulties 8, 8 and 5,
\* whose average is exactly 7
C24_Witness ==
    /\ Grouped
    /\ Len(learningPhases) = 3
    /\ learningPhases[1].phase_name = "Fundamentals"
    /\ learningPhases[2].phase_name = "Intermediate"
    /\ learningPhases[3].phase_name = "Advanced"
    /\ Len(learningPhases[3].skills) = 3
    /\ AverageDifficulty(learningPhases[3]) = Rat(7, 1)

-----------------------------------------------------------------------------
\* the skills of the input sequence that the catalog holds, in order
KnownSkills == SelectSeq(grouper.orderedSkills, LAMBDA id : id \in DOMAIN allSkills)

\* the position, in KnownSkills, of the first skill of phase n
PhaseStart(n) == Len(PhaseIdsUpTo(n - 1)) + 1

\* the highest catalog difficulty among the skills ids (a non-empty sequence)
MaxDifficulty(ids) ==
    CHOOSE d \in {allSkills[ids[i]].difficulty : i \in DOMAIN ids} :
        \A i \in DOMAIN ids : allSkills[ids[i]].difficulty <= d

\* the members that the phase of position k - 1 has collected when the skill
\* at position k of KnownSkills arrives
PhaseBefore(k) ==
    LET n == CHOOSE m \in DOMAIN learningPhases :
                 PhaseStart(m) <= k - 1 /\ k - 1 < PhaseStart(m + 1)
    IN SubSeq(KnownSkills, PhaseStart(n), k - 1)

(* C25: groupIntoPhases cuts the catalog skills of its input, in order,    *)
(* into phases so that a skill that arrives at a non-empty phase starts a  *)
(* new phase iff its difficulty is >= the phase's maximum + 3 or the phase *)
(* holds 4 skills; so within a phase no skill after the first exceeds the  *)
(* running maximum of the earlier members by 3 or more, and every          *)
(* non-final phase has 4 skills or is followed by a skill of difficulty    *)
(* >= its maximum + 3.                                                     *)
C25_PhaseBoundaryRule ==
    Grouped =>
        /\ PhaseIdsUpTo(Len(learningPhases)) = KnownSkills
        /\ \A k \in 2..Len(KnownSkills) :
              (\E n \in DOMAIN learningPhases : PhaseStart(n) = k)
                 <=> \/ allSkills[KnownSkills[k]].difficulty >= MaxDifficulty(PhaseBefore(k)) + 3
                     \/ Len(PhaseBefore(k)) = 4
        /\ \A n \in DOMAIN learningPhases :
              LET ids == StepIds(learningPhases[n])
              IN \A j \in 2..Len(ids) :
                    allSkills[ids[j]].difficulty < MaxDifficulty(SubSeq(ids, 1, j - 1)) + 3
        /\ \A n \in 1..(Len(learningPhases) - 1) :
              \/ Len(learningPhases[n].skills) = 4
              \/ allSkills[learningPhases[n + 1].skills[1].skill_id].difficulty
                    >= MaxDifficulty(StepIds(learningPhases[n])) + 3

\* an identifier the catalog lacks is skipped, a phase of four is closed by
\* its size before a skill of the same difficulty, and the next phase is
\* closed by a jump of exactly 3
C25_Witness ==
    /\ Grouped
    /\ Len(grouper.orderedSkills) > Len(KnownSkills)
    /\ Len(learningPhases) = 3
    /\ StepIds(learningPhases[1]) = <<"fe-001", "fe-001", "fe-001", "fe-001">>
    /\ StepIds(learningPhases[2]) = <<"fe-001">>
    /\ StepIds(learningPhases[3]) = <<"fe-003">>

-----------------------------------------------------------------------------
\* the role is one the data model allows: distinct required skills, minimums
\* of at least 1
ValidRole ==
    /\ DistinctRequirements
    /\ \A i \in DOMAIN Required : Required[i].minimum_proficiency >= 1

\* 100 times the weighted mean of the capped proficiency ratios
SkillPoints ==
    LET R == ProductOfMinimums(Required)
    IN Rat(100 * WeightedRatios(Required, R), R * SumOfWeights(Required))

(* C26: experience_match.meets_requirement holds iff the candidate's years *)
(* are >= the required years. When the role requires 0 years it is true   *)
(* and the experience ratio is 1 whatever the candidate's years: for a     *)
(* role with required skills (distinct, minimums >= 1) the score is        *)
(* round(0.7 * S + 30), S the skill component, and for a role without      *)
(* required skills it is 100.                                              *)
C26_NoExperienceBar ==
    Analyzed =>
        /\ gapAnalysis.experience_match.meets_requirement
              <=> candidate.experience_years >= targetRole.min_experience_years
        /\ targetRole.min_experience_years = 0 =>
              /\ gapAnalysis.experience_match.meets_requirement
              /\ Len(Required) = 0 => gapAnalysis.readiness_score = JsInt(100)
              /\ (Len(Required) >= 1 /\ ValidRole) =>
                    /\ ~gapAnalysis.readiness_score.nan
                    /\ gapAnalysis.readiness_score.value >= 30
                    /\ IsRoundOf(gapAnalysis.readiness_score.value,
                                 RatAdd(RatMul(SkillPoints, Rat(7, 10)), Rat(30, 1)))

\* no years required, no years held: a skill held at 4 of 5 gives
\* round(0.7 * 80 + 30)
C26_Witness ==
    /\ Analyzed
    /\ targetRole.min_experience_years = 0
    /\ candidate.experience_years = 0
    /\ Len(Required) = 1
    /\ Required[1].minimum_proficiency = 5
    /\ LevelOf(Required[1].skill_id) = 4
    /\ gapAnalysis.experience_match.meets_requirement
    /\ gapAnalysis.readiness_score = JsInt(86)

-----------------------------------------------------------------------------
\* topologicalSort has returned
SortReturned == pc = "sorted"

\* the number of skills of the working set: the gap skills and the
\* prerequisites inserted, each counted once
WorkingSetSize == Cardinality(DOMAIN sequencer.graph)

(* C27: the loop of topologicalSort ends for every input, cyclic and       *)
(* self-referencing prerequisite lists included: every iteration appends   *)
(* one skill to the result, no skill is appended twice, the number of      *)
(* iterations never exceeds the number of skills of the working set, and   *)
(* a call that has entered the loop returns.                               *)
C27_SortTerminates ==
    /\ [][(Sorting /\ sequencer' # sequencer) =>
             Len(sequencer'.k.result) = Len(sequencer.k.result) + 1]_vars
    /\ []((Sorting \/ SortReturned) =>
             /\ NoRepeat(sequencer.k.result)
             /\ Len(sequencer.k.result) <= WorkingSetSize)
    /\ Sorting ~> SortReturned

\* the call has returned although fe-005 names itself as a prerequisite; the
\* inserted prerequisite fe-001 was the only iteration
C27_Witness ==
    /\ SortReturned
    /\ allSkills["fe-005"].prerequisites = <<"fe-005", "fe-001">>
    /\ WorkingSetSize = 2
    /\ sorted.result = <<"fe-001">>

-----------------------------------------------------------------------------
\* the proficiency cand lists for id: the last record naming it, 0 when no
\* record names it
LevelIn(cand, id) ==
    LET cs == cand.current_skills
        named == {i \in DOMAIN cs : cs[i].skill_id = id}
    IN IF named = {} THEN 0
       ELSE cs[CHOOSE i \in named : \A j \in named : j <= i].proficiency_level

\* the second analysis has been made, of the stronger candidate
Reanalyzed == Analyzed /\ analyses # <<>>

\* the skills whose proficiency the change raised
RaisedSkills ==
    {id \in AnalysisIds : LevelIn(candidate, id) > LevelIn(analyses[1].candidate, id)}

\* the candidate before the change met every requirement of the role for id
MetBefore(id) ==
    \A i \in DOMAIN Required :
        Required[i].skill_id = id =>
            /\ Required[i].minimum_proficiency >= 1
            /\ LevelIn(analyses[1].candidate, id) >= Required[i].minimum_proficiency

(* C28: with the role fixed, the readiness score of analyzeGap does not    *)
(* fall when one proficiency of the candidate is raised, a skill is added  *)
(* or the years of experience grow; it stays the same when the years are   *)
(* the same and every skill whose proficiency rose already met its         *)
(* requirements (minimums >= 1).                                           *)
C28_ScoreMonotone ==
    Reanalyzed =>
        LET before == analyses[1].analysis.readiness_score
            after  == gapAnalysis.readiness_score
        IN /\ ~before.nan /\ ~after.nan
           /\ after.value >= before.value
           /\ (/\ candidate.experience_years = analyses[1].candidate.experience_years
               /\ \A id \in RaisedSkills : MetBefore(id)) => after = before

\* a Critical skill required at 5 is raised from 4 to 5, then held above the
\* requirement by a candidate two years short: the score rose from 56 to 70
C28_Witness ==
    /\ Reanalyzed
    /\ Len(Required) = 1
    /\ Required[1].minimum_proficiency = 5
    /\ targetRole.min_experience_years = 2
    /\ candidate.experience_years = 0
    /\ LevelIn(analyses[1].candidate, Required[1].skill_id) = 4
    /\ LevelIn(candidate, Required[1].skill_id) = 5
    /\ analyses[1].analysis.readiness_score = JsInt(56)
    /\ gapAnalysis.readiness_score = JsInt(70)

-----------------------------------------------------------------------------
\* C29 as stated: every skill of learning_path is a gap skill or a declared
\* prerequisite, not held at >= 5, of some skill in the path, and a skill
\* held at >= 5 that is no gap skill is not in the path.
\* Fails when the dependent of an inserted prerequisite lies on a cycle: the
\* prerequisite is scheduled and the dependent is not.
C29_PrerequisiteOfPathSkill ==
    Done =>
        /\ \A s \in Range(PathIds) :
              \/ s \in Range(GapIds)
              \/ ~Held(s) /\ \E d \in Range(PathIds) : s \in DeclaredPrereqs(d)
        /\ \A s \in RefIds : (Held(s) /\ s \notin Range(GapIds)) => ~Includes(PathIds, s)

(* C29: every skill of learning_path is a catalog skill, and it is a gap   *)
(* skill or a declared prerequisite, not held at >= 5, of some gap skill;  *)
(* that gap skill is in the path too unless a prerequisite cycle blocks    *)
(* it. A skill held at >= 5 that is no gap skill is not in the path.       *)
C29_NothingSpurious ==
    Done =>
        /\ \A s \in Range(PathIds) :
              /\ s \in DOMAIN allSkills
              /\ \/ s \in Range(GapIds)
                 \/ /\ ~Held(s)
                    /\ \E g \in Range(GapIds) :
                          /\ s \in DeclaredPrereqs(g)
                          /\ \/ Includes(PathIds, g)
                             \/ g \in BlockedByCycle(GraphEdges(sorted.graph))
        /\ \A s \in RefIds : (Held(s) /\ s \notin Range(GapIds)) => ~Includes(PathIds, s)

\* fe-005 needs fe-001, which the candidate holds at 5, and fe-003, which
\* they do not hold: the path is fe-003, fe-005
C29_Witness ==
    /\ Done
    /\ GapIds = <<"fe-005">>
    /\ Range(allSkills["fe-005"].prerequisites) = {"fe-001", "fe-003"}
    /\ Held("fe-001") /\ LevelOf("fe-001") = 5
    /\ ~Held("fe-003")
    /\ PathIds = <<"fe-003", "fe-005">>

-----------------------------------------------------------------------------
\* the order that roadmap.learning_path gives to the skill id
PathOrderOf(id) == roadmap.learning_path[IndexOf(PathIds, id)].order

(* C30: in the phases getLearningPhases returns for a roadmap, a step's    *)
(* order is its 1-based position inside its phase, so it restarts at 1 in  *)
(* every phase; it equals the order of the same skill in                   *)
(* roadmap.learning_path exactly for the steps of the first phase.         *)
C30_PhaseOrderRestarts ==
    Phased =>
        \A n \in DOMAIN learningPhases : \A i \in DOMAIN learningPhases[n].skills :
            LET step == learningPhases[n].skills[i]
            IN /\ step.order = i
               /\ Includes(PathIds, step.skill_id)
               /\ step.order = PathOrderOf(step.skill_id) <=> n = 1

\* the fifth step of the path opens the second phase with order 1
C30_Witness ==
    /\ Phased
    /\ Len(learningPhases) >= 2
    /\ Len(learningPhases[1].skills) = 4
    /\ learningPhases[2].skills[1].order = 1
    /\ roadmap.learning_path[5].skill_id = learningPhases[2].skills[1].skill_id
    /\ roadmap.learning_path[5].order = 5

=============================================================================
